---- MODULE Spec2Model ----
(***************************************************************************)
(* Model of the visit scheduler of rake (src/rake/core.py): Rake.start,    *)
(* Rake.__start (the producer), Rake.__concurrent (the workers), the link  *)
(* resolver and the parts of a Page Session that touch shared state (the   *)
(* Variable Scope, the Link Registry and the Result Tree).                 *)
(*                                                                         *)
(* Python objects are modelled with their identity: every dict that the    *)
(* code passes around by reference (a link's `metadata`) lives in `heap`   *)
(* and is named by its index, so that two names for one dict are two       *)
(* copies of one index.  Python strings are sequences of one-character     *)
(* strings, so that `url[0] == '$'` and `url[1:]` are Head and Tail.       *)
(*                                                                         *)
(* Three specifications: Spec and FairSpec are a run of Rake.start;        *)
(* CallSpec is one call of __resolve_range or __apply_utils, or calls of   *)
(* __extract_data one after the other on one Result Tree; SessionSpec is   *)
(* one Page Session interpreting the `interact` of its page spec           *)
(* (__interact, __browse, __should_repeat) on a page of items and anchors. *)
(***************************************************************************)
EXTENDS Integers, Sequences, FiniteSets, TLC

\* ---- bounds of the model ------------------------------------------------
MaxRace == 2
MaxTargets == 2

\* ---- Python values -------------------------------------------------------
\* a value that can be None is None or Some(v)
None == << >>
Some(v) == <<v>>
NoError == "NoError"
EmptyDict == << >>

DictSet(d, k, v) == [x \in (DOMAIN d) \cup {k} |-> IF x = k THEN v ELSE d[x]]

Str(s) == [t |-> "str", s |-> s]
Dict(d) == [t |-> "dict", d |-> d]
List(l) == [t |-> "list", items |-> l]

UrlA == <<"a">>
UrlB == <<"b">>
UrlC == <<"c">>
UrlD == <<"d">>
UrlZ == <<"z">>
RefLeads == <<"$", "L">>
RefMissing == <<"$", "M">>
Leads == <<"L">>

\* rake.utils.helpers.pick: the dict restricted to the given keys
Pick(d, keys) == [k \in (DOMAIN d) \cap keys |-> d[k]]

\* mutant: a `$name` reference is taken for a plain url
RECURSIVE ResolveUrlsNoRef(_, _, _, _)
ResolveUrlsNoRef(urls, links, stateLinks, h) ==
    IF urls = << >> THEN [links |-> links, heap |-> h]
    ELSE LET url == Head(urls) IN
         IF url.t = "dict"
           THEN ResolveUrlsNoRef(Tail(urls), Append(links, Pick(url.d, {"url", "metadata"})),
                                 stateLinks, h)
           ELSE ResolveUrlsNoRef(Tail(urls),
                                 Append(links, [url |-> url.s, metadata |-> Len(h) + 1]),
                                 stateLinks, Append(h, EmptyDict))

\* ---- Rake.__resolve_page_link (core.py 208-221) --------------------------
\* `links` is the accumulator of the loop, `stateLinks` is self.__state['links'],
\* `h` the heap; the result is the pair of the list of links and the heap
\* after the allocation of the fresh `{}` of line 219.
RECURSIVE ResolveUrls(_, _, _, _)
ResolveUrls(urls, links, stateLinks, h) ==
    IF urls = << >> THEN [links |-> links, heap |-> h]
    ELSE LET url == Head(urls) IN
         IF url.t = "dict"
           THEN ResolveUrls(Tail(urls), Append(links, Pick(url.d, {"url", "metadata"})),
                            stateLinks, h)
         ELSE IF Head(url.s) = "$"
           THEN ResolveUrls(Tail(urls),
                            links \o (IF Tail(url.s) \in DOMAIN stateLinks
                                        THEN stateLinks[Tail(url.s)] ELSE << >>),
                            stateLinks, h)
         ELSE ResolveUrls(Tail(urls),
                          Append(links, [url |-> url.s, metadata |-> Len(h) + 1]),
                          stateLinks, Append(h, EmptyDict))

ResolvePageLink(url, stateLinks, h) ==
    ResolveUrls(IF url.t \in {"str", "dict"} THEN <<url>> ELSE url.items,
                << >>, stateLinks, h)


\* ---- rake.utils.keypath ---------------------------------------------------
\* A scope is the list of the segments of a dotted path; a segment is a
\* literal name or `$name`.  The Result Tree is a dict whose values are
\* strings, lists and dicts.
\* keypath.resolve: a dynamic segment `$name` is the value of the variable
KeypathResolve(scope, variables) ==
    [i \in DOMAIN scope |->
        IF Head(scope[i]) = "$" THEN variables[scope[i][2]] ELSE scope[i]]

\* the merge of the value found at the path with the new one: two maps are
\* merged key by key, the new value winning; two sequences are concatenated;
\* anything else is replaced by the new value
RECURSIVE Merge(_, _)
Merge(old, new) ==
    IF old.t = "dict" /\ new.t = "dict"
      THEN Dict([k \in (DOMAIN old.d) \cup (DOMAIN new.d) |->
                   IF k \notin DOMAIN new.d THEN old.d[k]
                   ELSE IF k \notin DOMAIN old.d THEN new.d[k]
                   ELSE Merge(old.d[k], new.d[k])])
    ELSE IF old.t = "list" /\ new.t = "list"
      THEN List(old.items \o new.items)
    ELSE new

\* keypath.assign(value, data, path, merge): walks down to the parent of
\* the path, creating the maps that are missing on the way
RECURSIVE KeypathAssign(_, _, _, _)
KeypathAssign(value, data, path, merge) ==
    LET key == Head(path)
    IN  IF Len(path) = 1
          THEN DictSet(data, key,
                       IF merge /\ key \in DOMAIN data THEN Merge(data[key], value)
                       ELSE value)
          ELSE DictSet(data, key,
                       Dict(KeypathAssign(value,
                                          IF key \in DOMAIN data THEN data[key].d
                                          ELSE EmptyDict,
                                          Tail(path), merge)))

\* the path goes through maps only: assign is not specified for a path that
\* goes through a string or a sequence
RECURSIVE Walkable(_, _)
Walkable(data, path) ==
    IF Len(path) = 1 \/ Head(path) \notin DOMAIN data THEN TRUE
    ELSE IF data[Head(path)].t = "dict" THEN Walkable(data[Head(path)].d, Tail(path))
    ELSE FALSE

\* ---- __PageManager.__resolve_range (core.py 480-489) ----------------------
MaxCount == 3
MaxRangeValue == 5

IntVal(n) == [t |-> "int", v |-> n]
Underscore == Str(<<"_">>)

\* dict.get on `dict(enumerate(range))`: position i (from 0) or the default
RangeGet(range, i, default) == IF i + 1 \in DOMAIN range THEN range[i + 1] ELSE default

\* mutant: `_` is returned as it is given
OrDefaultKeepsUnderscore(v, default) == v

\* `x = default if x == '_' else x`
OrDefault(v, default) == IF v = Underscore THEN default ELSE v

ResolveRange(range, max) ==
    <<OrDefault(RangeGet(range, 0, IntVal(0)), IntVal(0)),
      OrDefault(RangeGet(range, 1, IntVal(max)), IntVal(max)),
      OrDefault(RangeGet(range, 2, IntVal(1)), IntVal(1))>>

\* the `range` lists of a node and the numbers of elements it is resolved for
RangeValues == {Underscore} \cup {IntVal(n) : n \in 0..MaxRangeValue}
Ranges == UNION {[1..n -> RangeValues] : n \in 0..3}
Counts == (0..MaxCount) \cup {10}
RangeCalls == [fn : {"resolve_range"}, range : Ranges, max : Counts]

\* ---- __PageManager.__apply_utils (core.py 695-718) -------------------------
MaxStrLen == 2

FloatVal(n) == [t |-> "float", v |-> n]
PyNone == [t |-> "none"]
Bool(b) == [t |-> "bool", b |-> b]
Raise(e) == [t |-> "raise", e |-> e]

Digits == <<"0", "1", "2", "3", "4", "5", "6", "7", "8", "9">>
IsDigit(c) == \E d \in DOMAIN Digits : Digits[d] = c
DigitOf(c) == (CHOOSE d \in DOMAIN Digits : Digits[d] = c) - 1
IsLetter(c) == c \in {"A", "B", "C", "a", "b", "c", "p", "x", "N", "o", "n", "e"}

\* float(s) of a string of digits
RECURSIVE ParseNat(_)
ParseNat(s) ==
    IF s = << >> THEN 0
    ELSE 10 * ParseNat(SubSeq(s, 1, Len(s) - 1)) + DigitOf(s[Len(s)])

\* rake.utils.helpers.is_numeric: a number, or a string that reads as one
IsNumeric(v) ==
    \/ v.t \in {"int", "float"}
    \/ v.t = "str" /\ v.s # << >> /\ \A i \in DOMAIN v.s : IsDigit(v.s[i])

\* float(value) of a numeric value
ToFloat(v) == IF v.t = "str" THEN ParseNat(v.s) ELSE v.v

RECURSIVE NatToStr(_)
NatToStr(n) ==
    IF n < 10 THEN <<Digits[n + 1]>>
    ELSE NatToStr(n \div 10) \o <<Digits[(n % 10) + 1]>>

IntToStr(n) == IF n < 0 THEN <<"-">> \o NatToStr(0 - n) ELSE NatToStr(n)

\* repr(value) of an item of a list, and the items joined by `, `
Repr(v) ==
    CASE v.t = "str" -> <<"'">> \o v.s \o <<"'">>
      [] v.t = "int" -> IntToStr(v.v)
      [] v.t = "none" -> <<"N", "o", "n", "e">>
      [] v.t = "bool" -> IF v.b THEN <<"T", "r", "u", "e">> ELSE <<"F", "a", "l", "s", "e">>
RECURSIVE JoinRepr(_)
JoinRepr(items) ==
    IF items = << >> THEN << >>
    ELSE IF Len(items) = 1 THEN Repr(items[1])
    ELSE Repr(items[1]) \o <<",", " ">> \o JoinRepr(Tail(items))

\* str(value); a float of the model is a whole number, printed with `.0`
PyStr(v) ==
    CASE v.t = "str" -> v.s
      [] v.t = "int" -> IntToStr(v.v)
      [] v.t = "float" -> IntToStr(v.v) \o <<".", "0">>
      [] v.t = "none" -> <<"N", "o", "n", "e">>
      [] v.t = "bool" -> IF v.b THEN <<"T", "r", "u", "e">> ELSE <<"F", "a", "l", "s", "e">>
      [] v.t = "list" -> <<"[">> \o JoinRepr(v.items) \o <<"]">>

\* the truth value of `value` in `value or ''`
Truthy(v) ==
    CASE v.t = "str" -> v.s # << >>
      [] v.t \in {"int", "float"} -> v.v # 0
      [] v.t = "none" -> FALSE
      [] v.t = "bool" -> v.b
      [] v.t = "list" -> v.items # << >>

LowerChar(c) ==
    CASE c = "A" -> "a" [] c = "B" -> "b" [] c = "C" -> "c" [] c = "N" -> "n"
      [] OTHER -> c

\* str.lower
Lower(s) == [i \in DOMAIN s |-> LowerChar(s[i])]

\* str.strip
RECURSIVE LStrip(_)
LStrip(s) == IF s # << >> /\ Head(s) = " " THEN LStrip(Tail(s)) ELSE s
RECURSIVE RStrip(_)
RStrip(s) ==
    IF s # << >> /\ s[Len(s)] = " " THEN RStrip(SubSeq(s, 1, Len(s) - 1)) ELSE s
Strip(s) == RStrip(LStrip(s))

\* value.split('?')[0]
RECURSIVE BeforeQuery(_)
BeforeQuery(s) ==
    IF s = << >> \/ Head(s) = "?" THEN << >> ELSE <<Head(s)>> \o BeforeQuery(Tail(s))

\* slugify (python-slugify): lower case, every run of other characters
\* becomes one `-`, no `-` at either end
RECURSIVE Dashed(_)
Dashed(s) ==
    IF s = << >> THEN << >>
    ELSE LET c == IF IsLetter(Head(s)) \/ IsDigit(Head(s)) THEN Head(s) ELSE "-"
             rest_ == Dashed(Tail(s))
         IN  IF c = "-" /\ (rest_ = << >> \/ Head(rest_) = "-") THEN rest_
             ELSE <<c>> \o rest_
Slugify(s) ==
    LET d == Dashed(Lower(s))
    IN  IF d # << >> /\ Head(d) = "-" THEN Tail(d) ELSE d

\* one `case` of the `match name.strip()`; the names of the model carry no
\* white space around them
ApplyUtil(name, args, value) ==
    CASE name = "prepend" ->
           IF Len(args) > 0
             THEN Str(args[1] \o (IF Truthy(value) THEN PyStr(value) ELSE << >>))
             ELSE value
      [] name = "lowercase" -> Str(Lower(PyStr(value)))
      [] name = "slug" -> Str(Slugify(PyStr(value)))
      [] name = "subtract" ->
           LET base == IF IsNumeric(value) THEN ToFloat(value) ELSE 0
           IN  IF Len(args) > 0 /\ IsNumeric(Str(args[1]))
                 THEN FloatVal(base - ToFloat(Str(args[1])))
                 ELSE FloatVal(base)
      [] name = "clear_url_params" ->
           IF value.t = "str" THEN Str(BeforeQuery(value.s))
           ELSE Raise("AttributeError")
      [] name = "trim" ->
           IF value.t = "str" THEN Str(Strip(value.s)) ELSE Raise("AttributeError")
      [] OTHER -> value

\* mutant: the last transform is applied first
RECURSIVE ApplyUtilsBackwards(_, _)
ApplyUtilsBackwards(utils, val) ==
    IF utils = << >> \/ val.t = "raise" THEN val
    ELSE LET last == utils[Len(utils)]
         IN  ApplyUtilsBackwards(SubSeq(utils, 1, Len(utils) - 1),
                                 ApplyUtil(last.name, last.args, val))

\* `for name, args in utils.items()`: a dict keeps the order of insertion
RECURSIVE ApplyUtils(_, _)
ApplyUtils(utils, val) ==
    IF utils = << >> \/ val.t = "raise" THEN val
    ELSE ApplyUtils(Tail(utils), ApplyUtil(Head(utils).name, Head(utils).args, val))

\* the strings, values and pipelines the method is called with
Alphabet == {" ", "A", "1", "?"}
Strings == UNION {[1..n -> Alphabet] : n \in 0..MaxStrLen}
SpacedABC == <<" ", " ", "A", "B", "C", " ", " ">>
Texts == Strings \cup {SpacedABC, <<"1", "0">>, <<"x">>}
Values == {Str(s) : s \in Texts} \cup {IntVal(2), PyNone}
Util(name, args) == [name |-> name, args |-> args]
Utils ==
    {Util(n, << >>) : n \in {"trim", "lowercase", "slug", "clear_url_params",
                             "subtract", "prepend", "upper"}}
    \cup {Util("subtract", <<(<<"3">>)>>), Util("subtract", <<(<<"x">>)>>),
          Util("prepend", <<(<<"p">>)>>)}
Pipelines ==
    {<< >>} \cup {<<u>> : u \in Utils}
    \cup {p \in Utils \X Utils : p[1].name # p[2].name}
UtilsCalls == [fn : {"apply_utils"}, utils : Pipelines, value : Values]

\* ---- the page and the Expression Engine: __evaluate, __attribute, __var ----
MaxItems == 3

\* the page: `n` items, each with one anchor inside it, in document order
Item == <<"i">>
Anchor == <<"a">>
Nowhere == <<"n">>
Dom(n) ==
    [e \in 1..(2 * n) |->
        IF e % 2 = 1 THEN [class |-> Item, parent |-> 0]
        ELSE [class |-> Anchor, parent |-> e - 1]]
Doms == {Dom(n) : n \in 0..MaxItems}

\* `self.__page.locator(selector)` then `locator.all()` (core.py 410, 419):
\* the elements of the whole page that match, in document order
RECURSIVE MatchesUpTo(_, _, _)
MatchesUpTo(d, selector, e) ==
    IF e = 0 THEN << >>
    ELSE MatchesUpTo(d, selector, e - 1)
           \o (IF d[e].class = selector THEN <<e>> ELSE << >>)
PageLocatorAll(d, selector) == MatchesUpTo(d, selector, Len(d))

\* locs[start:stop] for start and stop that are not negative
Slice(locs, start, stop) ==
    SubSeq(locs, start + 1, IF stop < Len(locs) THEN stop ELSE Len(locs))

\* the element `e` is inside `loc`; 0 is the root of the page
RECURSIVE Within(_, _, _)
Within(d, e, loc) ==
    IF d[e].parent = loc THEN TRUE
    ELSE IF d[e].parent = 0 THEN FALSE
    ELSE Within(d, d[e].parent, loc)

\* `loc.locator(selector).all()` (core.py 646): the matching elements inside `loc`
LocLocatorAll(d, loc, selector) ==
    SelectSeq(PageLocatorAll(d, selector), LAMBDA e : Within(d, e, loc))

\* what the page holds for an element: `node.href`, `node.src`,
\* `node.innerText` and `is_disabled()` (core.py 661-669); an item has no
\* href, nothing has a src, and the anchors are disabled
Property(d, e, attr) ==
    CASE attr = "text" -> Str(<<" ", "t">> \o NatToStr(e))
      [] attr = "href" ->
           IF d[e].class = Anchor THEN Str(<<"h">> \o NatToStr(e)) ELSE PyNone
      [] attr = "disabled" -> Bool(d[e].class = Anchor)
      [] OTHER -> PyNone

\* int(value) of what __apply_utils returns for a count (core.py 653)
ToInt(v) ==
    CASE v.t \in {"int", "float"} -> IntVal(v.v)
      [] v.t = "bool" -> IntVal(IF v.b THEN 1 ELSE 0)
      [] v.t = "str" -> IF IsNumeric(v) THEN IntVal(ParseNat(v.s))
                        ELSE Raise("ValueError")
      [] v.t = "raise" -> v
      [] OTHER -> Raise("TypeError")

\* the first error among the values of a list, or none
FirstRaise(values) ==
    LET bad == SelectSeq(values, LAMBDA v : v.t = "raise")
    IN  IF bad = << >> THEN None ELSE Some(Head(bad))

\* `locs = [loc]`, or the elements the selector matches from the element
\* or from the page (core.py 627, 644-650)
AttributeLocs(g, loc, d) ==
    IF "selector" \notin DOMAIN g THEN <<loc>>
    ELSE IF g.context = "parent" THEN LocLocatorAll(d, loc, g.selector)
    ELSE IF g.context = "page" THEN PageLocatorAll(d, g.selector)
    ELSE <<loc>>

\* `if len(utils): value = self.__apply_utils(utils, value)` (core.py 671-672)
Transformed(utils, value) == IF utils # << >> THEN ApplyUtils(utils, value) ELSE value

\* the loop over the elements (core.py 655-674)
AttributeValues(g, d, locs) ==
    [i \in DOMAIN locs |-> Transformed(g.utils, Property(d, locs[i], g.attribute))]

\* `if max == 'one': values = dict(enumerate(values)).get(0, '')` (core.py 676)
OneOrAll(g, values) ==
    IF g.max = "one" THEN (IF values # << >> THEN values[1] ELSE Str(<< >>))
    ELSE List(values)

\* `if var_name: self.__vars[var_name] = values` and `return values`
\* (core.py 678-680)
Binding(g, result, variables) ==
    [value |-> result,
     vars |-> IF "var" \in DOMAIN g THEN DictSet(variables, g.var, result) ELSE variables]

\* the values that were read: the first error among them is raised
AttributeResult(g, values, variables) ==
    IF FirstRaise(values) # None THEN [value |-> FirstRaise(values)[1], vars |-> variables]
    ELSE Binding(g, OneOrAll(g, values), variables)

\* __attribute from the check of the property on (core.py 649-680)
AttributeOf(g, locs, d, variables) ==
    IF "attribute" \notin DOMAIN g THEN [value |-> Raise("ValueError"), vars |-> variables]
    ELSE IF g.attribute = "count"
      THEN [value |-> ToInt(ApplyUtils(g.utils, IntVal(Len(locs)))), vars |-> variables]
    ELSE AttributeResult(g, AttributeValues(g, d, IF g.max = "one" THEN Slice(locs, 0, 1)
                                                  ELSE locs), variables)

\* what __attribute does once the getter is parsed (core.py 639-680): the
\* value it returns, or the error it raises, and the variables afterwards
Attribute(g, loc, d, variables) == AttributeOf(g, AttributeLocs(g, loc, d), d, variables)

\* `is_none_keys(result, 'child_node', 'ctx', 'max', 'selector')` (core.py 686)
\* for the result of notation.parse_value(name, set_defaults=False)
IsNoneKeys(parsed) == DOMAIN parsed \cap {"child_node", "ctx", "max", "selector"} = {}

\* __var (core.py 683-692): `g.name` is the text between the braces and
\* `g.parsed` what notation.parse_value makes of it
Var(g, default, variables) ==
    IF ~IsNoneKeys(g.parsed) THEN Raise("ValueError")
    ELSE IF g.parsed.prop \in DOMAIN variables
      THEN IF g.name \in DOMAIN variables
             THEN ApplyUtils(g.parsed.utils, variables[g.name])
             ELSE Raise("KeyError")
    ELSE default

\* the text of a getter in a template
FullMatch(g) == <<"$", g.getter, "{", g.name, "}">>

\* the characters of a template
RECURSIVE Flatten(_)
Flatten(string) ==
    IF string = << >> THEN << >>
    ELSE (IF Head(string).getter = "none" THEN Head(string).s ELSE FullMatch(Head(string)))
           \o Flatten(Tail(string))

\* re.sub(re.escape(full_match), str(value), string) (core.py 616)
Sub(g, text, string) ==
    [i \in DOMAIN string |->
        IF string[i].getter # "none" /\ FullMatch(string[i]) = FullMatch(g)
          THEN [getter |-> "none", s |-> text]
          ELSE string[i]]

\* notation.parse_getters(string): the getters of the template, in order
ParseGetters(string) == SelectSeq(string, LAMBDA part : part.getter # "none")

\* `return string if not len(list_string) else list_string` (core.py 621)
EvaluateResult(string, list_string) ==
    IF Len(list_string) = 0 THEN Str(Flatten(string)) ELSE List(list_string)

\* `str(self.__var(var_name, full_match))` (core.py 613)
VarValue(v, variables) ==
    [value |-> IF v.t = "raise" THEN v ELSE Str(PyStr(v)), vars |-> variables]

\* the value of one getter (core.py 609-613)
GetterValue(g, loc, d, variables) ==
    IF g.getter = "attr" THEN Attribute(g.parsed, loc, d, variables)
    ELSE VarValue(Var(g, Str(FullMatch(g)), variables), variables)

\* the loop of __evaluate over the getters (core.py 608-619); `got` is the
\* value of each getter so far, `r` the value of the first of `getters`
RECURSIVE EvaluateLoop(_, _, _, _, _, _, _)
EvaluateGetter(getters, string, list_string, got, loc, d, r) ==
    IF r.value.t = "raise"
      THEN [value |-> r.value, vars |-> r.vars, got |-> Append(got, r.value)]
    ELSE IF r.value.t # "list"
      THEN EvaluateLoop(Tail(getters), Sub(Head(getters), PyStr(r.value), string),
                        list_string, Append(got, r.value), loc, d, r.vars)
    ELSE EvaluateLoop(Tail(getters), string, list_string \o r.value.items,
                      Append(got, r.value), loc, d, r.vars)
EvaluateLoop(getters, string, list_string, got, loc, d, variables) ==
    IF getters = << >>
      THEN [value |-> EvaluateResult(string, list_string), vars |-> variables,
            got |-> got]
    ELSE EvaluateGetter(getters, string, list_string, got, loc, d,
                        GetterValue(Head(getters), loc, d, variables))

\* __evaluate (core.py 605-621) of a template at the element `loc`
EvaluateAt(string, loc, d, variables) ==
    EvaluateLoop(ParseGetters(string), string, << >>, << >>, loc, d, variables)

\* ---- the Action Executor: __PageManager.__node_actions (core.py 490-545) ----
MaxRepeat == 2

\* `node.getBoundingClientRect()` of the element `loc` after `fired` actions
\* have fired on the page: every action that fires moves the elements one
\* pixel to the right; the widths and heights are even
BoundingClientRect(loc, fired) ==
    [x |-> 3 * (loc - 1) + fired, y |-> loc, width |-> 4, height |-> 2]

\* the progress of __node_actions: what it did on the page so far, the
\* variables, the number of actions that fired, and the error it raised
Progress(variables) == [log |-> << >>, vars |-> variables, fired |-> 0, error |-> None]
Logged(st, ev) == [st EXCEPT !.log = Append(@, ev)]
Fired(st, ev) == [st EXCEPT !.log = Append(@, ev), !.fired = @ + 1]
Raised(st, e) == [st EXCEPT !.log = Append(@, [k |-> "raise", e |-> e.e]), !.error = Some(e)]

Swipes == {"swipe_left", "swipe_right"}

\* pick(action.get('options', {}), {'button': True, 'modifiers': True})
Pick_(action) ==
    IF "options" \in DOMAIN action
      THEN [k \in DOMAIN action.options \cap {"button", "modifiers"} |-> action.options[k]]
      ELSE EmptyDict

\* the two ends of the drag of a swipe (core.py 523-528)
SwipeStart(rect) == <<rect.x + rect.width \div 2, rect.y + rect.height \div 2>>
SwipeEnd(t, rect) ==
    <<IF t = "swipe_left" THEN 0 ELSE rect.x + rect.width, rect.y + rect.height \div 2>>

\* the event of one repetition (core.py 516-536)
Fire(action, rect, st) ==
    LET t == action.type
    IN  IF "dispatch" \in DOMAIN action /\ action.dispatch /\ t \notin Swipes
          THEN Fired(st, [k |-> "dispatch_event", type |-> t])
        ELSE IF t = "click" THEN Fired(st, [k |-> "click", options |-> Pick_(action)])
        ELSE IF t \in Swipes
          THEN Fired(st, [k |-> "swipe", type |-> t, from |-> SwipeStart(rect),
                          to |-> SwipeEnd(t, rect)])
        ELSE Raised(st, Raise("ValueError"))

\* `if 'delay' in action` and `if 'wait' in action` (core.py 509-510, 538-539)
Delayed(action, st) ==
    IF "delay" \in DOMAIN action
      THEN Logged(st, [k |-> "wait_for_timeout", ms |-> action.delay])
      ELSE st
Waited(action, st) ==
    IF st.error = None /\ "wait" \in DOMAIN action
      THEN Logged(st, [k |-> "wait_for_timeout", ms |-> action.wait])
      ELSE st

\* one repetition: the delay, the event, the wait (core.py 509-539)
Round(action, rect, st) == Waited(action, Fire(action, rect, Delayed(action, st)))

\* `for _ in range(count)` (core.py 508)
RECURSIVE Rounds(_, _, _, _)
Rounds(action, n, rect, st) ==
    IF n <= 0 \/ st.error # None THEN st
    ELSE Rounds(action, n - 1, rect, Round(action, rect, st))

\* `int(...)` of what the count evaluates to
CountOf(r) == [value |-> ToInt(r.value), vars |-> r.vars]

\* the count of an action (core.py 499-504): an int, a template or a getter
ActionCount(action, loc, d, variables) ==
    IF "count" \notin DOMAIN action THEN [value |-> IntVal(1), vars |-> variables]
    ELSE IF action.count.t = "str" THEN CountOf(EvaluateAt(action.count.s, loc, d, variables))
    ELSE IF action.count.t = "dict" THEN CountOf(Attribute(action.count.d, loc, d, variables))
    ELSE [value |-> action.count, vars |-> variables]

\* `screenshot_path = await self.__evaluate(action['screenshot'], loc)`
\* (core.py 494-497)
ScreenshotPath(action, loc, d, variables) ==
    IF "screenshot" \in DOMAIN action THEN EvaluateAt(action.screenshot, loc, d, variables)
    ELSE [value |-> Str(<< >>), vars |-> variables]

\* `await loc.page.screenshot(path=screenshot_path, full_page=True)`
\* (core.py 544-545)
Screenshot(action, shot, st) ==
    IF st.error # None \/ "screenshot" \notin DOMAIN action THEN st
    ELSE Logged(st, [k |-> "screenshot", path |-> shot.value])

\* the repetitions, once the count is known (core.py 506-539)
Repeated(action, loc, st, count) ==
    IF count.value.t = "raise" THEN Raised(st, count.value)
    ELSE Rounds(action, count.value.v, BoundingClientRect(loc, st.fired),
                [st EXCEPT !.vars = count.vars])

\* mutant: the path of the screenshot is evaluated when it is taken
LateScreenshot(action, shot, st) ==
    IF st.error # None \/ "screenshot" \notin DOMAIN action THEN st
    ELSE IF shot.value.t = "raise" THEN Raised(st, shot.value)
    ELSE Screenshot(action, shot,
                    Logged([st EXCEPT !.vars = shot.vars],
                           [k |-> "evaluate", value |-> shot.value]))
LatePath(action, loc, d, st) == LateScreenshot(action, ScreenshotPath(action, loc, d, st.vars), st)
OneActionLatePath(action, loc, d, st) ==
    LatePath(action, loc, d, Repeated(action, loc, st, ActionCount(action, loc, d, st.vars)))

\* the action from its count on, with the path of its screenshot
\* (core.py 499-545)
Evaluated_(action, st, shot) ==
    IF "screenshot" \in DOMAIN action
      THEN Logged([st EXCEPT !.vars = shot.vars], [k |-> "evaluate", value |-> shot.value])
      ELSE st
WithPath(action, loc, d, st, shot) ==
    IF shot.value.t = "raise" THEN Raised(st, shot.value)
    ELSE Screenshot(action, shot,
                    Repeated(action, loc, Evaluated_(action, st, shot),
                             ActionCount(action, loc, d, shot.vars)))

\* the body of the loop over the actions (core.py 492-545)
OneAction(action, loc, d, st) ==
    WithPath(action, loc, d, st, ScreenshotPath(action, loc, d, st.vars))

\* __node_actions (core.py 490-545)
RECURSIVE NodeActions(_, _, _, _)
NodeActions(actions, loc, d, st) ==
    IF actions = << >> \/ st.error # None THEN st
    ELSE NodeActions(Tail(actions), loc, d, OneAction(Head(actions), loc, d, st))

\* ---- the pages of the site and the configuration -------------------------
\* what `attr{a@href}` finds on the page at `url`: two anchors
PageHrefs(url) == <<Append(url, "1"), Append(url, "2")>>

\* the dict that a {url, metadata} link of the configuration carries; it is
\* heap cell 1 from the start
ConfigMetadata == [tag |-> <<"t">>]
DictLink == Dict([url |-> UrlD, metadata |-> 1, parent |-> <<"p">>])

Literals == <<Str(UrlA), Str(UrlB), Str(UrlC), Str(UrlD)>>

\* interaction specs: one node, which matches one element of the page; the
\* node has no actions, its data is written at the key that is the url of
\* the session, and its links (if any) are the anchors of the page: a
\* string for cardinality one, a list for cardinality all
VarGetter(name) ==
    [getter |-> "var", name |-> name, parsed |-> [prop |-> name, utils |-> << >>]]
Text(s) == [getter |-> "none", s |-> s]
PageData == <<[scope |-> <<(<<"$", "_url">>)>>, value |-> Str(VarGetter("_url"))]>>
CollectOne == [name |-> Leads, max |-> "one"]
CollectAll == [name |-> Leads, max |-> "all", metadata |-> [from |-> "$var{_url}"]]
Node(links) == [name |-> <<"n", ":", "1">>, links |-> links, data |-> PageData]
DataNode == [name |-> <<"n", ":", "2">>, data |-> PageData]

FirstPages ==
    {[link |-> List(SubSeq(Literals, 1, n)), interact |-> Node(<<CollectOne>>)] : n \in 0..MaxTargets}
        \cup {[link |-> DictLink, interact |-> Node(<<CollectAll>>)], [link |-> Str(UrlA)]}
NextPages ==
    {[link |-> Str(RefLeads), interact |-> DataNode],
     [link |-> Str(RefMissing), interact |-> DataNode],
     [link |-> List(<<Str(RefLeads), Str(UrlZ)>>), interact |-> Node(<<CollectOne>>)],
     [interact |-> DataNode]}

Configs ==
    {[browser |-> "chromium", race |-> r, rake |-> <<p, q>>, output |-> TRUE] :
        r \in 1..MaxRace, p \in FirstPages, q \in NextPages}
    \cup {[browser |-> "chromium", race |-> 1, output |-> o] : o \in BOOLEAN}
    \cup {[browser |-> "netscape", race |-> 1, rake |-> << >>, output |-> TRUE]}
    \cup {[browser |-> "chromium", race |-> 1, rake |-> <<p>>, output |-> FALSE] :
        p \in {[link |-> Str(UrlA), interact |-> DataNode]}}

\* the browser types that playwright has (core.py 181)
BrowserTypes == {"chromium", "firefox", "webkit"}

\* ---- state ---------------------------------------------------------------
VARIABLES
    config,               \* self.__config
    heap,                 \* the dicts that are shared by reference
    state,                \* self.__state: data (Result Tree), links (Link Registry)
    browser,              \* self.__browser_context: "none", "open", "closed"
    total_opened_pages,   \* self.__total_opened_pages
    pc,                   \* where Rake.start / Rake.__start is
    page,                 \* index of page_config in self.__config['rake']
    links,                \* the resolved links of the page spec
    next_link,            \* position of the `for link in links` loop
    queue,                \* the items of the asyncio.Queue: Some(index in links) or None
    unfinished,           \* the queue's count of unfinished tasks
    tasks,                \* the worker tasks of the page spec
    sink,                 \* what Rake.__output has written
    ret,                  \* the tuple Rake.start returns
    visits,               \* history: per link of the page spec, opens started and completed
    collected,            \* history: the links collected, with the page spec that did it
    call,                 \* a call of one method with its arguments
    retval,               \* what the call has returned
    dom,                  \* the elements of the page a Page Session has open
    interaction,          \* the `interact` of the page spec of the session
    stack,                \* the calls of __interact and __browse in progress
    trace                 \* history: what the session has done, in order

vars == <<config, heap, state, browser, total_opened_pages, pc, page, links,
          next_link, queue, unfinished, tasks, sink, ret, visits, collected,
          call, retval, dom, interaction, stack, trace>>

\* the variables of a run of Rake.start, and the others
run == <<config, heap, state, browser, total_opened_pages, pc, page, links,
         next_link, queue, unfinished, tasks, sink, ret, visits, collected>>
idle == <<config, browser, total_opened_pages, pc, page, links, next_link, queue,
          unfinished, tasks, sink, ret, visits, collected>>
session == <<dom, interaction, stack, trace>>
rest == <<call, retval, session>>

Workers == DOMAIN tasks

\* a task that waits at `await queue.get()`
Idle == [pc |-> "get", link |-> 0, vars |-> 0]

\* the pc of a task while PageManager.open runs
SessionPcs == {"goto", "locate", "evaluate", "close"}

\* Rake.__init__ (core.py 41-47) with one of the configurations
Start(configs, h) ==
    /\ config \in configs
    /\ heap = h
    /\ state = [data |-> EmptyDict, links |-> EmptyDict]
    /\ browser = "none"
    /\ total_opened_pages = 0
    /\ pc = "launch"
    /\ page = 1
    /\ links = << >>
    /\ next_link = 1
    /\ queue = << >>
    /\ unfinished = 0
    /\ tasks = << >>
    /\ sink = << >>
    /\ ret = None
    /\ visits = << >>
    /\ collected = << >>

\* no method call on its own, no Page Session on its own
NoCall == call = None /\ retval = None
NoSession == dom = << >> /\ interaction = None /\ stack = << >> /\ trace = << >>

Init ==
    /\ Start(Configs, <<ConfigMetadata>>)
    /\ NoCall
    /\ NoSession


\* ---- Rake.start / Rake.__start: the producer ------------------------------
\* `except Exception as e: return (e, None)` (core.py 57-58), then `finally`
Except(e) ==
    /\ ret' = [error |-> e, data |-> None]
    /\ pc' = "finally"

\* Rake.__launch_browser (core.py 176-195) and the test of line 134
LaunchBrowser ==
    /\ pc = "launch"
    /\ IF config.browser \notin BrowserTypes
         THEN /\ Except("ValueError")
              /\ UNCHANGED browser
         ELSE /\ browser' = "open"
              /\ pc' = IF "rake" \notin DOMAIN config THEN "early_data"
                       ELSE IF config.rake = << >> THEN "data" ELSE "resolve"
              /\ UNCHANGED ret
    /\ UNCHANGED <<config, heap, state, total_opened_pages, page, links, next_link,
                   queue, unfinished, tasks, sink, visits, collected>>
    /\ UNCHANGED rest

\* Rake.data (core.py 68-85): every configured output is written by
\* Rake.__output, which can fail (the directory, the transform, the file)
Output(ok) ==
    IF config.output
      THEN IF ok THEN sink' = Append(sink, state.data) ELSE UNCHANGED sink
      ELSE ok /\ UNCHANGED sink

\* `if 'rake' not in self.__config: return self.data()` (core.py 134)
EarlyData ==
    /\ pc = "early_data"
    /\ \E ok \in BOOLEAN :
         /\ Output(ok)
         /\ IF ok THEN pc' = "data" /\ UNCHANGED ret ELSE Except("OSError")
    /\ UNCHANGED <<config, heap, state, browser, total_opened_pages, page, links,
                   next_link, queue, unfinished, tasks, visits, collected>>
    /\ UNCHANGED rest

\* mutant: one task more than the budget
CreateTasksOneMore(race) == [w \in 1..(race + 1) |-> Idle]

\* `tasks = [asyncio.create_task(...) for _ in range(race)]` (core.py 142)
CreateTasks(race) == [w \in 1..race |-> Idle]

\* core.py 139-142: resolve the link specification, make the queue and the tasks
Resolve ==
    /\ pc = "resolve"
    /\ LET page_config == config.rake[page] IN
       IF "link" \notin DOMAIN page_config
         THEN /\ Except("KeyError")
              /\ UNCHANGED <<heap, links, next_link, queue, unfinished, tasks, visits>>
         ELSE LET r == ResolvePageLink(page_config.link, state.links, heap) IN
              /\ links' = r.links
              /\ heap' = r.heap
              /\ next_link' = 1
              /\ queue' = << >>
              /\ unfinished' = 0
              /\ tasks' = CreateTasks(config.race)
              /\ visits' = [i \in 1..Len(r.links) |-> [started |-> 0, done |-> 0]]
              /\ pc' = IF r.links = << >> THEN "join" ELSE "put"
              /\ UNCHANGED ret
    /\ UNCHANGED <<config, state, browser, total_opened_pages, page, sink, collected>>
    /\ UNCHANGED rest

\* mutant: the list of the loop is not a snapshot: it grows with the links
\* that the workers of the page spec collect
TargetsLive ==
    LET here == {i \in DOMAIN collected : collected[i].page = page}
        group == IF Leads \in DOMAIN state.links THEN state.links[Leads] ELSE << >>
    IN  links \o SubSeq(group, Len(group) - Cardinality(here) + 1, Len(group))

\* the list that `for link in links` iterates and whose items are in the
\* queue: the local list that __resolve_page_link built (core.py 139, 144, 210)
Targets == links

\* mutant: the queue has no maximum size
QueueUnbounded(q, maxsize) == FALSE

\* the queue of `asyncio.Queue(maxsize=race)` is full (core.py 141)
QueueFull(q, maxsize) == Len(q) >= maxsize

\* `await queue.put(link)` (core.py 144-145): blocks while the queue is full
Put ==
    /\ pc = "put"
    /\ ~QueueFull(queue, config.race)
    /\ queue' = Append(queue, Some(next_link))
    /\ unfinished' = unfinished + 1
    /\ next_link' = next_link + 1
    /\ pc' = IF next_link = Len(Targets) THEN "join" ELSE "put"
    /\ UNCHANGED <<config, heap, state, browser, total_opened_pages, page, links,
                   tasks, sink, ret, visits, collected>>
    /\ UNCHANGED rest

\* mutant: join waits for the queue to be empty, not for the visits to be done
JoinWhenEmpty == queue = << >>

\* `await queue.join()` (core.py 147): returns when no task is unfinished
JoinReady == unfinished = 0

Join ==
    /\ pc = "join"
    /\ JoinReady
    /\ pc' = "signal"
    /\ next_link' = 1
    /\ UNCHANGED <<config, heap, state, browser, total_opened_pages, page, links,
                   queue, unfinished, tasks, sink, ret, visits, collected>>
    /\ UNCHANGED rest

\* mutant: one termination signal fewer than there are workers
OneSignalFewer == Len(tasks) - 1

\* `for _ in tasks` (core.py 149): the number of termination signals
SignalCount == Len(tasks)

\* `for _ in tasks: await queue.put(None)` (core.py 149-150); next_link
\* counts the signals
Signal ==
    /\ pc = "signal"
    /\ ~QueueFull(queue, config.race)
    /\ queue' = Append(queue, None)
    /\ unfinished' = unfinished + 1
    /\ next_link' = next_link + 1
    /\ pc' = IF next_link = SignalCount THEN "gather" ELSE "signal"
    /\ UNCHANGED <<config, heap, state, browser, total_opened_pages, page, links,
                   tasks, sink, ret, visits, collected>>
    /\ UNCHANGED rest

\* mutant: the tasks are not awaited
GatherNoWait == TRUE

\* `await asyncio.gather(*tasks)` (core.py 152): returns when every task has
\* finished, raises as soon as one task has raised
GatherReady == \A w \in Workers : tasks[w].pc = "exited"

Gather ==
    /\ pc = "gather"
    /\ IF \E w \in Workers : tasks[w].pc = "failed"
         THEN /\ Except("Error")
              /\ UNCHANGED page
         ELSE /\ GatherReady
              /\ IF page < Len(config.rake)
                   THEN page' = page + 1 /\ pc' = "resolve"
                   ELSE page' = page /\ pc' = "data"
              /\ UNCHANGED ret
    /\ UNCHANGED <<config, heap, state, browser, total_opened_pages, links, next_link,
                   queue, unfinished, tasks, sink, visits, collected>>
    /\ UNCHANGED rest

\* `data = self.data(); return (None, data)` (core.py 54-56)
Data ==
    /\ pc = "data"
    /\ \E ok \in BOOLEAN :
         /\ Output(ok)
         /\ IF ok THEN ret' = [error |-> NoError, data |-> Some(state.data)] /\ pc' = "finally"
                  ELSE Except("OSError")
    /\ UNCHANGED <<config, heap, state, browser, total_opened_pages, page, links,
                   next_link, queue, unfinished, tasks, visits, collected>>
    /\ UNCHANGED rest

\* `finally: await self.__close_browser()` (core.py 59-60, 198-205)
CloseBrowser ==
    /\ pc = "finally"
    /\ browser' = IF browser = "open" THEN "closed" ELSE browser
    /\ pc' = "returned"
    /\ UNCHANGED <<config, heap, state, total_opened_pages, page, links, next_link,
                   queue, unfinished, tasks, sink, ret, visits, collected>>
    /\ UNCHANGED rest


\* ---- Rake.__concurrent and the Page Session: the workers ------------------
\* re.sub(':', '-', name) (core.py 403)
Slug(name) == [i \in DOMAIN name |-> IF name[i] = ":" THEN "-" ELSE name[i]]

\* __evaluate of a template that is one `$var{name}` getter (core.py 605-621, 683-692)
EvaluateVar(h, ref, name) == h[ref][name]

\* __evaluate of the url expression of a link config on the page at `url`:
\* a string for cardinality one, a list for cardinality all (core.py 658-680)
EvaluateHref(link, url) ==
    IF link.max = "one" THEN Str(Head(PageHrefs(url))) ELSE List(PageHrefs(url))

\* the entries that one link config appends (core.py 596-602); all the
\* entries of a list result carry the one dict `metadata`
NewLinks(result, metadata) ==
    IF result.t # "list"
      THEN <<[url |-> result.s, metadata |-> metadata]>>
      ELSE [i \in 1..Len(result.items) |-> [url |-> result.items[i], metadata |-> metadata]]

\* Rake.__PageManager.__add_links (core.py 583-602) for the page at `url`
\* with the Variable Scope `ref`: the registry and the heap afterwards
RECURSIVE AddLinks(_, _, _, _, _)
AddLinks(cfgs, url, ref, registry, h) ==
    IF cfgs = << >> THEN [links |-> registry, heap |-> h]
    ELSE LET link == Head(cfgs)
             name == link.name
             metadata == Len(h) + 1
             dict == IF "metadata" \in DOMAIN link
                       THEN [k \in DOMAIN link.metadata |-> EvaluateVar(h, ref, "_url")]
                       ELSE EmptyDict
             old == IF name \in DOMAIN registry THEN registry[name] ELSE << >>
             new == old \o NewLinks(EvaluateHref(link, url), metadata)
         IN  AddLinks(Tail(cfgs), url, ref, DictSet(registry, name, new), Append(h, dict))

\* Rake.__PageManager.__extract_data (core.py 548-580)
\* the Variable Scope as __evaluate reads it: `_nth` is an int, the other
\* variables of a session are strings
TagVars(variables) ==
    [k \in DOMAIN variables |->
        IF k = "_nth" THEN IntVal(variables[k]) ELSE Str(variables[k])]

\* __evaluate (core.py 605-621) of a string with one `$var{name}` getter or
\* with none: a variable that is not set leaves the getter as it stands
Evaluate(string, h, ref) ==
    IF string.getter = "var"
      THEN IF string.name \in DOMAIN h[ref] THEN EvaluateVar(h, ref, string.name)
           ELSE <<"$", "var", "{", string.name, "}">>
      ELSE string.s

\* the value of a DataConfig (core.py 552-564): a string, a list of strings
\* or a dict of strings, each evaluated
DataValue(value, h, ref) ==
    CASE value.t = "str" -> Str(Evaluate(value.s, h, ref))
      [] value.t = "list" ->
           List([i \in DOMAIN value.items |-> Str(Evaluate(value.items[i], h, ref))])
      [] value.t = "dict" ->
           Dict([k \in DOMAIN value.d |-> Str(Evaluate(value.d[k], h, ref))])

\* mutant: assign is called without merge
ExtractOneReplace(config_, all, ref, data, h) ==
    LET value == DataValue(config_.value, h, ref)
    IN  KeypathAssign(IF all THEN List(<<value>>) ELSE value, data,
                      KeypathResolve(config_.scope, h[ref]), FALSE)

\* the body of the loop of __extract_data (core.py 550-580)
ExtractOne(config_, all, ref, data, h) ==
    LET value == DataValue(config_.value, h, ref)
    IN  KeypathAssign(IF all THEN List(<<value>>) ELSE value, data,
                      KeypathResolve(config_.scope, h[ref]), TRUE)

\* mutant: every value is assigned into an empty tree
RECURSIVE ExtractDataFresh(_, _, _, _, _)
ExtractDataFresh(cfgs, all, ref, data, h) ==
    IF cfgs = << >> THEN data
    ELSE ExtractDataFresh(Tail(cfgs), all, ref,
                          ExtractOne(Head(cfgs), all, ref, EmptyDict, h), h)

\* __extract_data (core.py 548-580)
RECURSIVE ExtractData(_, _, _, _, _)
ExtractData(cfgs, all, ref, data, h) ==
    IF cfgs = << >> THEN data
    ELSE ExtractData(Tail(cfgs), all, ref, ExtractOne(Head(cfgs), all, ref, data, h), h)

\* mutant: the visit is marked complete and the counter is left as it is
TaskDoneUncounted(w, link) ==
    /\ unfinished' = unfinished - 1
    /\ UNCHANGED total_opened_pages
    /\ visits' = [visits EXCEPT ![link].done = @ + 1]

\* queue.task_done() and the counter (core.py 171-173)
TaskDone(w, link) ==
    /\ unfinished' = unfinished - 1
    /\ total_opened_pages' = total_opened_pages + 1
    /\ visits' = [visits EXCEPT ![link].done = @ + 1]

\* mutant: get does not take the item out of the queue
DequeueKeeps(q) == q

\* what `queue.get()` leaves in the queue (core.py 157)
Dequeue(q) == Tail(q)

\* `await queue.get()` up to the first suspension of PageManager.open
\* (core.py 157-169, 314-334)
Get(w) ==
    /\ tasks[w].pc = "get"
    /\ queue # << >>
    /\ queue' = Dequeue(queue)
    /\ LET item == Head(queue) IN
       IF item = None
         THEN /\ tasks' = [tasks EXCEPT ![w].pc = "exited"]
              /\ UNCHANGED <<heap, unfinished, total_opened_pages, visits>>
         ELSE LET link == Targets[item[1]]
                  fresh == "metadata" \notin DOMAIN link
                  ref == IF fresh THEN Len(heap) + 1 ELSE link.metadata
                  h == IF fresh THEN Append(heap, EmptyDict) ELSE heap
              IN  /\ heap' = [h EXCEPT ![ref] = DictSet(@, "_url", link.url)]
                  /\ IF "interact" \notin DOMAIN config.rake[page]
                       THEN /\ unfinished' = unfinished - 1
                            /\ total_opened_pages' = total_opened_pages + 1
                            /\ visits' = [visits EXCEPT ![item[1]].started = @ + 1,
                                                        ![item[1]].done = @ + 1]
                            /\ UNCHANGED tasks
                       ELSE /\ tasks' = [tasks EXCEPT ![w] = [pc |-> "goto", link |-> item[1], vars |-> ref]]
                            /\ visits' = [visits EXCEPT ![item[1]].started = @ + 1]
                            /\ UNCHANGED <<unfinished, total_opened_pages>>
    /\ UNCHANGED <<config, state, browser, pc, page, links, next_link, sink, ret, collected>>
    /\ UNCHANGED rest

\* node.get('all', False) (core.py 424)
All(node) == IF "all" \in DOMAIN node THEN node.all ELSE FALSE

\* new_page and page.goto return or raise (core.py 334-360); an automation
\* error ends the task; otherwise __interact, __browse up to
\* `await locator.all()` (core.py 362, 395, 399-419)
Goto(w) ==
    /\ tasks[w].pc = "goto"
    /\ \E ok \in BOOLEAN :
          IF ok
            THEN LET node == config.rake[page].interact IN
                 /\ heap' = [heap EXCEPT ![tasks[w].vars] = DictSet(@, "_node", Slug(node.name))]
                 /\ tasks' = [tasks EXCEPT ![w].pc = "locate"]
            ELSE /\ tasks' = [tasks EXCEPT ![w].pc = "failed"]
                 /\ UNCHANGED heap
    /\ UNCHANGED <<config, state, browser, total_opened_pages, pc, page, links,
                   next_link, queue, unfinished, sink, ret, visits, collected>>
    /\ UNCHANGED rest

\* `locator.all()` returns the one element: `_nth`, no actions, then
\* __add_links up to its `await self.__evaluate(link['url'], loc)`, or with no
\* links __extract_data, whose `$var{...}` template and keypath calls do not
\* suspend, up to `await self.__page.close()` (core.py 419-442, 363)
Locate(w) ==
    /\ tasks[w].pc = "locate"
    /\ LET node == config.rake[page].interact
           h == [heap EXCEPT ![tasks[w].vars] = DictSet(@, "_nth", 0)]
       IN  /\ heap' = h
           /\ IF "links" \in DOMAIN node
                THEN /\ tasks' = [tasks EXCEPT ![w].pc = "evaluate"]
                     /\ UNCHANGED state
                ELSE /\ tasks' = [tasks EXCEPT ![w].pc = "close"]
                     /\ state' = [state EXCEPT !.data =
                                     ExtractData(node.data, All(node), tasks[w].vars, @, h)]
    /\ UNCHANGED <<config, browser, total_opened_pages, pc, page, links, next_link,
                   queue, unfinished, sink, ret, visits, collected>>
    /\ UNCHANGED rest

\* the url expression of the link config is evaluated: the appends of
\* __add_links, then __extract_data, up to `await self.__page.close()`
\* (core.py 439-442, 583-602, 363)
Collect(w) ==
    /\ tasks[w].pc = "evaluate"
    /\ LET node == config.rake[page].interact
           url == links[tasks[w].link].url
           r == AddLinks(node.links, url, tasks[w].vars, state.links, heap)
           old == IF Leads \in DOMAIN state.links THEN Len(state.links[Leads]) ELSE 0
       IN  /\ state' = [links |-> r.links,
                        data |-> ExtractData(node.data, All(node), tasks[w].vars,
                                             state.data, r.heap)]
           /\ heap' = r.heap
           /\ collected' = collected \o
                 [i \in 1..(Len(r.links[Leads]) - old) |->
                     [page |-> page, name |-> Leads, url |-> r.links[Leads][old + i].url]]
    /\ tasks' = [tasks EXCEPT ![w].pc = "close"]
    /\ UNCHANGED <<config, browser, total_opened_pages, pc, page, links, next_link,
                   queue, unfinished, sink, ret, visits>>
    /\ UNCHANGED rest

\* the page is closed and open returns: task_done and the counter
\* (core.py 363-365, 171-173)
ClosePage(w) ==
    /\ tasks[w].pc = "close"
    /\ TaskDone(w, tasks[w].link)
    /\ tasks' = [tasks EXCEPT ![w] = Idle]
    /\ UNCHANGED <<config, heap, state, browser, pc, page, links, next_link, queue,
                   sink, ret, collected>>
    /\ UNCHANGED rest

Worker(w) ==
    \/ Get(w) \/ Goto(w) \/ Locate(w) \/ Collect(w) \/ ClosePage(w)

Producer ==
    \/ LaunchBrowser \/ EarlyData \/ Resolve \/ Put \/ Join \/ Signal \/ Gather
    \/ Data \/ CloseBrowser

Next ==
    \/ LaunchBrowser
    \/ EarlyData
    \/ Resolve
    \/ Put
    \/ Join
    \/ Signal
    \/ Gather
    \/ Data
    \/ CloseBrowser
    \/ \E w \in Workers : Get(w)
    \/ \E w \in Workers : Goto(w)
    \/ \E w \in Workers : Locate(w)
    \/ \E w \in Workers : Collect(w)
    \/ \E w \in Workers : ClosePage(w)

Spec == Init /\ [][Next]_vars

\* asyncio runs every task that is ready
FairSpec ==
    Spec /\ WF_vars(Producer) /\ \A w \in 1..MaxRace : WF_vars(w \in Workers /\ Worker(w))


\* ---- calls of __extract_data, one after the other, on one Result Tree -------
MaxCalls == 2

SegP == <<"p">>
SegQ == <<"q">>
SegK == <<"k">>
SegJ == <<"j">>
Scopes == {<<SegP>>, <<SegP, SegK>>, <<SegP, <<"$", "_url">>>>, <<SegQ>>}
One(k, v) == [x \in {k} |-> v]
DataValues ==
    {Str(VarGetter("_url")), Str(Text(<<"x">>)), List(<<Text(<<"x">>)>>),
     Dict(One(SegK, Text(<<"x">>))), Dict(One(SegK, Text(<<"y">>))),
     Dict(One(SegJ, Text(<<"y">>)))}
DataConfigs == [scope : Scopes, value : DataValues]
VariableScopes == {[_url |-> u] : u \in {UrlA, UrlB}}
ExtractCalls == [fn : {"extract_data"}, data : {EmptyDict}]

\* the Result Tree the next call works on
Tree(i) == IF i = 0 THEN call.data ELSE retval[i].data

\* ---- calls of the Expression Engine ---------------------------------------
\* a getter of a template: `name` is its text between the braces, `parsed`
\* what notation.parse_value makes of it
AttrGetter(name, parsed) == [getter |-> "attr", name |-> name, parsed |-> parsed]
Own(attr, max) == [attribute |-> attr, max |-> max, context |-> "parent", utils |-> << >>]
Bound(attr, max) ==
    [attribute |-> attr, max |-> max, context |-> "parent", utils |-> << >>, var |-> "x"]
Inside(attr, selector, ctx, max) ==
    [attribute |-> attr, selector |-> selector, max |-> max, context |-> ctx,
     utils |-> << >>]

\* getters that bind the variable `x`: every property, one and all
BindGetters ==
    {AttrGetter("text=x", Bound("text", "one")),
     AttrGetter("text:all=x", Bound("text", "all")),
     AttrGetter("href=x", Bound("href", "one")),
     AttrGetter("href:all=x", Bound("href", "all")),
     AttrGetter("src=x", Bound("src", "one")),
     AttrGetter("src:all=x", Bound("src", "all")),
     AttrGetter("disabled=x", Bound("disabled", "one")),
     AttrGetter("disabled:all=x", Bound("disabled", "all")),
     AttrGetter("count=x", Bound("count", "one")),
     AttrGetter("count:all=x", Bound("count", "all"))}

\* getters that read without binding: a scalar, lists, a list that is empty
\* on every page, a trimmed text, a count, and one with no property
ReadGetters ==
    {AttrGetter("text", Own("text", "one")),
     AttrGetter("text|trim", [Own("text", "one") EXCEPT !.utils = <<Util("trim", << >>)>>]),
     AttrGetter("href@a:all", Inside("href", Anchor, "parent", "all")),
     AttrGetter("href@page a:all", Inside("href", Anchor, "page", "all")),
     AttrGetter("text@n:all", Inside("text", Nowhere, "parent", "all")),
     AttrGetter("count@page a", Inside("count", Anchor, "page", "one")),
     AttrGetter("@a", [selector |-> Anchor, max |-> "one", context |-> "parent",
                       utils |-> << >>])}

\* variable getters: plain, with a transform, with two, and with a selector
VarGetters ==
    {VarGetter("x"), VarGetter("_url"),
     [getter |-> "var", name |-> "x|lowercase",
      parsed |-> [prop |-> "x", utils |-> <<Util("lowercase", << >>)>>]],
     [getter |-> "var", name |-> "y|trim|lowercase",
      parsed |-> [prop |-> "y", utils |-> <<Util("trim", << >>), Util("lowercase", << >>)>>]],
     [getter |-> "var", name |-> "x@a",
      parsed |-> [prop |-> "x", utils |-> << >>, selector |-> Anchor]],
     [getter |-> "var", name |-> "x:all",
      parsed |-> [prop |-> "x", utils |-> << >>, max |-> "all"]]}

Parts == BindGetters \cup ReadGetters \cup VarGetters \cup {Text(<<"p">>)}
Templates == {<<p>> : p \in Parts} \cup {<<p, q>> : p \in Parts, q \in ReadGetters}

\* the variables of the session before the call
EngineScopes == {EmptyDict, DictSet(DictSet(EmptyDict, "x", Str(<<"A">>)), "_url", Str(UrlA))}

\* the pages with an element to evaluate at, and the elements
Pages == Doms \ {Dom(0)}
EvaluateCalls ==
    [fn : {"evaluate"}, string : Templates, loc : {1, 2}, dom : Pages, vars : EngineScopes]

\* the actions __node_actions is called with: every type, one of them not
\* supported, with and without a count, a delay, a wait, a raw dispatch and
\* a screenshot
WithOpt(a, k, v) == IF v = None THEN a ELSE DictSet(a, k, v[1])
ActionTypes == {"click", "swipe_left", "swipe_right", "hover"}
ActionCounts ==
    {None} \cup {Some(IntVal(n)) : n \in 0..MaxRepeat}
      \cup {Some(Str(<<AttrGetter("count@page a", Inside("count", Anchor, "page", "one"))>>)),
            Some(Dict(Inside("count", Anchor, "parent", "one")))}
ShotPath == <<Text(<<"p">>), AttrGetter("text=x", Bound("text", "one"))>>
Actions ==
    {WithOpt(WithOpt(WithOpt(WithOpt(WithOpt([type |-> t], "count", c), "delay", dl),
                             "wait", w), "dispatch", dp), "screenshot", sh) :
        t \in ActionTypes, c \in ActionCounts, dl \in {None, Some(5)},
        w \in {None, Some(7)}, dp \in {None, Some(TRUE)}, sh \in {None, Some(ShotPath)}}
ActionLists == {<<a>> : a \in Actions} \cup {<<a, [type |-> "click"]>> : a \in Actions}
NodeActionsCalls ==
    [fn : {"node_actions"}, actions : ActionLists, loc : {1, 2}, dom : Pages,
     vars : EngineScopes]

\* ---- __PageManager.__should_repeat (core.py 450-477) ----------------------
\* the conditions of a `repeat` list; their getters read the page from its root
FirstText == Inside("text", Item, "parent", "one")
Items_ == Inside("count", Item, "parent", "one")
WhileT == [value |-> FirstText, while |-> <<"equal", Str(<<" ", "t", "1">>)>>]
NotF == [value |-> FirstText, while |-> <<"not", Str(<< >>)>>]
MoreThan1 == [value |-> Items_, while |-> <<"greater_than", IntVal(1)>>]
Malformed == [value |-> FirstText]
UnknownOp == [value |-> FirstText, while |-> <<"same", Str(<<" ", "t", "1">>)>>]

\* `if not value_getter or not repeat_while or len(repeat_while) != 2: continue`
WellFormed(c) ==
    "value" \in DOMAIN c /\ "while" \in DOMAIN c /\ Len(c.while) = 2

\* mutant: an operator that no case matches makes the condition fail
FailsUnlessKnown(op, value, operand) ==
    CASE op \in {"equal", "is"} -> value # operand
      [] op \in {"not_equal", "not"} -> value = operand
      [] op = "greater_than" -> value.v <= operand.v
      [] op = "less_than" -> value.v >= operand.v
      [] op = "greater_than_or_equal" -> value.v < operand.v
      [] op = "less_than_or_equal" -> value.v > operand.v
      [] OTHER -> TRUE

\* the `match repeat_while[0]` of __should_repeat: the condition returns False
Fails(op, value, operand) ==
    CASE op \in {"equal", "is"} -> value # operand
      [] op \in {"not_equal", "not"} -> value = operand
      [] op = "greater_than" -> value.v <= operand.v
      [] op = "less_than" -> value.v >= operand.v
      [] op = "greater_than_or_equal" -> value.v < operand.v
      [] op = "less_than_or_equal" -> value.v > operand.v
      [] OTHER -> FALSE

\* the conditions whose getter was resolved, with `c` before them
Read(c, rest_) == [rest_ EXCEPT !.read = <<c>> \o @]

\* mutant: the conditions after one that fails are read too
RECURSIVE ShouldRepeatReadsAll(_, _, _)
ComparedAll(c, r, rest_) ==
    IF r.value.t = "raise" THEN [value |-> r.value, vars |-> r.vars, read |-> <<c>>]
    ELSE IF Fails(c.while[1], r.value, c.while[2])
      THEN Read(c, [rest_ EXCEPT !.value = Bool(FALSE)])
    ELSE Read(c, rest_)
ReadAll(conditions, d, r) ==
    ComparedAll(Head(conditions), r, ShouldRepeatReadsAll(Tail(conditions), d, r.vars))
ShouldRepeatReadsAll(conditions, d, variables) ==
    IF conditions = << >> THEN [value |-> Bool(TRUE), vars |-> variables, read |-> << >>]
    ELSE IF ~WellFormed(Head(conditions))
      THEN ShouldRepeatReadsAll(Tail(conditions), d, variables)
    ELSE ReadAll(conditions, d, Attribute(Head(conditions).value, 0, d, variables))

\* __should_repeat (core.py 450-477) on the page `d`: what it returns, the
\* variables afterwards and the conditions whose getter was resolved; `r` is
\* what __attribute returns for the first of `conditions`
RECURSIVE ShouldRepeat(_, _, _)
Compare(conditions, d, r) ==
    IF r.value.t = "raise"
      THEN [value |-> r.value, vars |-> r.vars, read |-> <<Head(conditions)>>]
    ELSE IF Fails(Head(conditions).while[1], r.value, Head(conditions).while[2])
      THEN [value |-> Bool(FALSE), vars |-> r.vars, read |-> <<Head(conditions)>>]
    ELSE Read(Head(conditions), ShouldRepeat(Tail(conditions), d, r.vars))
ShouldRepeat(conditions, d, variables) ==
    IF conditions = << >> THEN [value |-> Bool(TRUE), vars |-> variables, read |-> << >>]
    ELSE IF ~WellFormed(Head(conditions)) THEN ShouldRepeat(Tail(conditions), d, variables)
    ELSE Compare(conditions, d, Attribute(Head(conditions).value, 0, d, variables))

\* the condition lists __should_repeat is called with: the six operators and
\* the two aliases on the number of items, the equalities on a text that is
\* bound to a variable, a condition with no `while` and an unknown operator
Operators ==
    {"equal", "is", "not_equal", "not", "greater_than", "less_than",
     "greater_than_or_equal", "less_than_or_equal"}
TextAs(name) == DictSet(FirstText, "var", name)
Conditions ==
    {[value |-> Items_, while |-> <<op, IntVal(1)>>] : op \in Operators}
      \cup {[value |-> TextAs(name), while |-> <<op, Str(<<" ", "t", "1">>)>>] :
              name \in {"x", "y"}, op \in {"equal", "is", "not_equal", "not"}}
      \cup {Malformed, UnknownOp}
ConditionLists ==
    {<<c>> : c \in Conditions} \cup {<<b, c>> : b \in Conditions, c \in Conditions}
ShouldRepeatCalls ==
    [fn : {"should_repeat"}, conditions : ConditionLists, dom : Doms, vars : EngineScopes]

\* ---- calls of one method ---------------------------------------------------
Calls == RangeCalls \cup UtilsCalls \cup ExtractCalls \cup EvaluateCalls
           \cup NodeActionsCalls \cup ShouldRepeatCalls

\* no run of Rake.start: a configuration with no page spec, nothing started
NoRun == {[browser |-> "chromium", race |-> 1, output |-> FALSE, rake |-> << >>]}

CallInit ==
    /\ Start(NoRun, <<ConfigMetadata>>)
    /\ call \in Calls
    /\ retval = None
    /\ NoSession

ResolveRangeCall ==
    /\ call.fn = "resolve_range"
    /\ retval = None
    /\ retval' = Some(ResolveRange(call.range, call.max))
    /\ UNCHANGED <<call, run, session>>

ApplyUtilsCall ==
    /\ call.fn = "apply_utils"
    /\ retval = None
    /\ retval' = Some(ApplyUtils(call.utils, call.value))
    /\ UNCHANGED <<call, run, session>>

\* a session with the variables `v` extracts the data of one DataConfig
ExtractDataCall ==
    /\ call.fn = "extract_data"
    /\ Len(retval) < MaxCalls
    /\ \E c \in DataConfigs, all \in BOOLEAN, v \in VariableScopes :
          /\ Walkable(Tree(Len(retval)), KeypathResolve(c.scope, v))
          /\ retval' = Append(retval,
                 [config |-> c, all |-> all, vars |-> v,
                  data |-> ExtractData(<<c>>, all, 1, Tree(Len(retval)), <<v>>)])
    /\ UNCHANGED <<call, run, session>>

\* `await self.__evaluate(string, loc)`: the result, the variables
\* afterwards and what each getter yielded
EvaluateCall ==
    /\ call.fn = "evaluate"
    /\ retval = None
    /\ retval' = Some(EvaluateAt(call.string, call.loc, call.dom, call.vars))
    /\ UNCHANGED <<call, run, session>>

\* `await self.__node_actions(actions, loc)`: what it did and the variables
NodeActionsCall ==
    /\ call.fn = "node_actions"
    /\ retval = None
    /\ retval' = Some(NodeActions(call.actions, call.loc, call.dom, Progress(call.vars)))
    /\ UNCHANGED <<call, run, session>>

\* `await self.__should_repeat(conditions)` on the page `call.dom`
ShouldRepeatCall ==
    /\ call.fn = "should_repeat"
    /\ retval = None
    /\ retval' = Some(ShouldRepeat(call.conditions, call.dom, call.vars))
    /\ UNCHANGED <<call, run, session>>

CallNext ==
    \/ ShouldRepeatCall
    \/ ResolveRangeCall
    \/ ApplyUtilsCall
    \/ ExtractDataCall
    \/ EvaluateCall
    \/ NodeActionsCall

CallSpec == CallInit /\ [][CallNext]_vars

\* ---- one Page Session: __interact, __browse, __should_repeat (core.py 384-477)
MaxRuns == 2

\* the nodes of the interaction specs; they have no text filter
Click == <<[type |-> "click"]>>
NodeNone == [selector |-> Nowhere, actions |-> Click, data |-> PageData]
NodeItems == [selector |-> Item, all |-> TRUE, actions |-> Click]
NodeFirstItem ==
    [selector |-> Item, name |-> <<"i", ":", "1">>, data |-> PageData,
     links |-> <<CollectOne>>]
NodeAnchor == [selector |-> Anchor, actions |-> Click]
NodeFar ==
    [selector |-> Item, all |-> TRUE, range |-> <<IntVal(MaxRangeValue)>>,
     actions |-> Click]
NodeStep ==
    [selector |-> Item, all |-> TRUE,
     range |-> <<Underscore, Underscore, IntVal(2)>>, actions |-> Click]
NodeWait == [selector |-> Nowhere, wait |-> 1]
NodeWaitItems == [selector |-> Item, wait |-> 1, actions |-> Click]
NodeHover == [selector |-> Item, all |-> TRUE, actions |-> <<[type |-> "hover"]>>,
              data |-> PageData]
NodeFull(inner) ==
    [selector |-> Item, all |-> TRUE, show |-> TRUE, actions |-> Click \o Click,
     links |-> <<CollectOne>>, data |-> PageData, interact |-> inner]
NodeRange(range, all) ==
    [selector |-> Anchor, all |-> all, range |-> range, actions |-> Click]
NodeRanges ==
    {NodeRange(range, all) :
        range \in {<<IntVal(1)>>, <<IntVal(1), IntVal(2)>>, <<IntVal(0), Underscore, IntVal(2)>>,
                   <<IntVal(1), Underscore, IntVal(2)>>, <<IntVal(MaxRangeValue)>>},
        all \in BOOLEAN}
Nested(inner) == [selector |-> Item, all |-> TRUE, interact |-> inner]

InteractConfigs ==
    {[nodes |-> <<List(<<NodeNone, NodeItems, NodeAnchor>>),
                  List(<<NodeFar, NodeAnchor>>), NodeAnchor>>],
     [nodes |-> <<List(<<NodeFar, NodeAnchor>>), NodeAnchor>>],
     [nodes |-> <<NodeStep, NodeFirstItem>>],
     [nodes |-> <<NodeWait>>],
     [nodes |-> <<List(<<NodeWait, NodeAnchor>>), NodeFirstItem>>],
     [nodes |-> <<NodeWaitItems, NodeWait, NodeAnchor>>],
     [nodes |-> <<NodeHover, NodeAnchor>>],
     [nodes |-> <<NodeFull([nodes |-> <<NodeAnchor>>]), NodeAnchor>>],
     [nodes |-> <<Nested([nodes |-> <<NodeAnchor>>])>>],
     [nodes |-> <<Nested([repeat |-> List(<<WhileT>>), nodes |-> <<NodeAnchor>>])>>],
     [repeat |-> Str(<<"x">>), nodes |-> <<NodeAnchor>>]}
    \cup {[nodes |-> <<n>>] : n \in NodeRanges}
    \cup {[repeat |-> IntVal(n), nodes |-> <<List(<<NodeNone, NodeAnchor>>)>>] :
            n \in 0..MaxRuns}
    \cup {[repeat |-> List(c), nodes |-> <<NodeAnchor>>] :
            c \in {<<WhileT>>, <<NotF, MoreThan1>>, <<Malformed>>, <<UnknownOp>>,
                   <<Malformed, UnknownOp>>, << >>}}

\* the calls in progress: __interact, __browse and the loop over the elements
\* of a node; `id` numbers the calls of __interact, `within` is the element
\* whose node the interaction spec belongs to (0 for the page spec)
InteractFrame(cfg, id, within) ==
    [k |-> "interact", cfg |-> cfg, id |-> id, runs |-> 0, within |-> within]
BrowseFrame(nodes, id, within) ==
    [k |-> "browse", nodes |-> nodes, i |-> 1, alt |-> 1, id |-> id, within |-> within]
NodeFrame(node, at, group, alt, locs, step, id, within) ==
    [k |-> "node", node |-> node, at |-> at, group |-> group, alt |-> alt, locs |-> locs,
     step |-> step, j |-> 0, done |-> << >>, id |-> id, within |-> within]

Top == stack[Len(stack)]
Under == SubSeq(stack, 1, Len(stack) - 1)
Running(kind) == stack # << >> /\ Top.k = kind
NextId == 1 + Cardinality({i \in DOMAIN trace : trace[i].k = "interact"})

RepeatKind(cfg) == IF "repeat" \in DOMAIN cfg THEN cfg.repeat.t ELSE "none"

\* __PageManager.open calls __interact with the `interact` of the page spec
\* (core.py 362) on the page of the link `a`
SessionInit ==
    /\ Start(NoRun, <<DictSet(ConfigMetadata, "_url", UrlA)>>)
    /\ NoCall
    /\ dom \in Doms
    /\ interaction \in InteractConfigs
    /\ stack = <<InteractFrame(interaction, 1, 0)>>
    /\ trace = <<[k |-> "interact", id |-> 1, from |-> 0, cfg |-> interaction]>>

\* the frames of a run of the node list, and what the history says of them
Run(f) == <<[f EXCEPT !.runs = @ + 1], BrowseFrame(f.cfg.nodes, f.id, f.within)>>
Started(frames, id) ==
    IF frames = << >> THEN <<[k |-> "return", id |-> id]>>
    ELSE <<[k |-> "browse", id |-> id]>>

\* no `repeat`: `await self.__browse(interactions['nodes'])` (core.py 394-395)
InteractOnce ==
    /\ Running("interact")
    /\ RepeatKind(Top.cfg) = "none"
    /\ Top.runs = 0
    /\ stack' = Under \o Run(Top)
    /\ trace' = trace \o Started(Run(Top), Top.id)
    /\ UNCHANGED <<run, call, retval, dom, interaction>>

\* mutant: one run more than the count
CountDoneLate(f) == f.runs > f.cfg.repeat.v

\* `for _ in range(repeat)` is over
CountDone(f) == f.runs >= f.cfg.repeat.v

\* `for _ in range(repeat): await self.__browse(...)` (core.py 388-390)
InteractCount ==
    /\ Running("interact")
    /\ RepeatKind(Top.cfg) = "int"
    /\ ~CountDone(Top)
    /\ stack' = Under \o Run(Top)
    /\ trace' = trace \o Started(Run(Top), Top.id)
    /\ UNCHANGED <<run, call, retval, dom, interaction>>

\* mutant: the first run does not wait for a passing check
AfterCheckDoWhile(pass, f) == IF pass \/ f.runs = 0 THEN Run(f) ELSE << >>

\* `while await self.__should_repeat(repeat): await self.__browse(...)`
AfterCheck(pass, f) == IF pass THEN Run(f) ELSE << >>

\* `while await self.__should_repeat(repeat): await self.__browse(...)`: the
\* run that follows a check that passes
Checked(pass) ==
    /\ stack' = Under \o AfterCheck(pass, Top)
    /\ trace' = trace \o <<[k |-> "check", id |-> Top.id, pass |-> pass]>>
                      \o Started(AfterCheck(pass, Top), Top.id)

\* one check of the conditions (core.py 391-393, 450-477) on what the page
\* holds by then, which is any page; the model stops after MaxRuns runs of
\* the node list
InteractWhile ==
    /\ Running("interact")
    /\ RepeatKind(Top.cfg) = "list"
    /\ Top.runs < MaxRuns
    /\ \E d \in Doms :
          Checked(ShouldRepeat(Top.cfg.repeat.items, d, TagVars(heap[1])).value.b)
    /\ UNCHANGED <<run, call, retval, dom, interaction>>

\* __interact returns: the one run is over, the count is reached, or
\* `repeat` is neither an int nor a list
InteractReturn ==
    /\ Running("interact")
    /\ \/ RepeatKind(Top.cfg) = "none" /\ Top.runs = 1
       \/ RepeatKind(Top.cfg) = "int" /\ CountDone(Top)
       \/ RepeatKind(Top.cfg) \notin {"none", "int", "list"}
    /\ stack' = Under
    /\ trace' = Append(trace, [k |-> "return", id |-> Top.id])
    /\ UNCHANGED <<run, call, retval, dom, interaction>>

\* `alts = alts if type(alts) == list else [alts]` (core.py 400)
Alternatives(f) ==
    IF "items" \in DOMAIN f.nodes[f.i] THEN f.nodes[f.i].items ELSE <<f.nodes[f.i]>>

\* `continue`: the next alternative, or the next entry after the last one
Continue(f) ==
    IF f.alt < Len(Alternatives(f)) THEN [f EXCEPT !.alt = @ + 1]
    ELSE [f EXCEPT !.i = @ + 1, !.alt = 1]

\* mutant: the alternatives after the chosen one are tried too
BreakContinues(f) == Continue(f)

\* `if count: break` (core.py 447): the next entry of the node list
Break(f) == [f EXCEPT !.i = @ + 1, !.alt = 1]

\* `self.__vars['_node'] = re.sub(':', '-', node.get('name', node['selector']))`
SetNode(h, node) ==
    [h EXCEPT ![1] = DictSet(@, "_node",
        Slug(IF "name" \in DOMAIN node THEN node.name ELSE node.selector))]

\* the node list is over: __browse returns
BrowseReturn ==
    /\ Running("browse")
    /\ Top.i > Len(Top.nodes)
    /\ stack' = Under
    /\ UNCHANGED <<run, call, retval, dom, interaction, trace>>

\* the selector matches nothing: `if not count: continue` (core.py 402-422)
BrowseSkip ==
    /\ Running("browse")
    /\ Top.i <= Len(Top.nodes)
    /\ LET node == Alternatives(Top)[Top.alt]
       IN  /\ PageLocatorAll(dom, node.selector) = << >>
           /\ "wait" \notin DOMAIN node
           /\ heap' = SetNode(heap, node)
    /\ stack' = Under \o <<Continue(Top)>>
    /\ UNCHANGED <<idle, state, call, retval, dom, interaction, trace>>

\* `await locator.wait_for(timeout=node['wait'])` (core.py 415-417)
WaitFor(node, id) ==
    IF "wait" \in DOMAIN node
      THEN <<[k |-> "wait_for", id |-> id, selector |-> node.selector, timeout |-> node.wait]>>
      ELSE << >>

\* mutant: after the timeout the node is skipped like one that matches nothing
TimeoutSkips(frames) ==
    SubSeq(frames, 1, Len(frames) - 1) \o <<Continue(frames[Len(frames)])>>

\* `except TimeoutError as e: raise e` (core.py 417): the error leaves
\* __browse and every call under it
TimeoutRaised(frames) == << >>

\* `locator.wait_for` of a selector that matches nothing raises TimeoutError
\* (core.py 415-417), which ends the session
BrowseTimeout ==
    /\ Running("browse")
    /\ Top.i <= Len(Top.nodes)
    /\ LET node == Alternatives(Top)[Top.alt]
       IN  /\ PageLocatorAll(dom, node.selector) = << >>
           /\ "wait" \in DOMAIN node
           /\ heap' = SetNode(heap, node)
           /\ trace' = trace \o WaitFor(node, Top.id)
                             \o <<[k |-> "raise", e |-> "TimeoutError"]>>
    /\ stack' = TimeoutRaised(stack)
    /\ UNCHANGED <<idle, state, call, retval, dom, interaction>>

\* mutant: the first element of the ranged slice only, with `all` too
SelectedFirst(node, ranged) == Slice(ranged, 0, 1)

\* `if not all: locs = locs[0:1]` (core.py 428)
Selected(node, ranged) == IF All(node) THEN ranged ELSE Slice(ranged, 0, 1)

\* the selector matches: the wait, the range, the slice, `all`, and then the
\* loop over the elements; the `break` after the loop is the frame left
\* under it (core.py 402-430, 447)
BrowseEnter ==
    /\ Running("browse")
    /\ Top.i <= Len(Top.nodes)
    /\ LET node == Alternatives(Top)[Top.alt]
           locs == PageLocatorAll(dom, node.selector)
           rng == ResolveRange(IF "range" \in DOMAIN node THEN node.range ELSE << >>,
                               Len(locs))
           ranged == Slice(locs, rng[1].v, rng[2].v)
       IN  /\ locs # << >>
           /\ heap' = SetNode(heap, node)
           /\ trace' = trace \o WaitFor(node, Top.id)
           /\ stack' = Under \o
                 <<Break(Top),
                   NodeFrame(node, Top.i, Alternatives(Top), Top.alt,
                             Selected(node, ranged), rng[3].v, Top.id, Top.within)>>
    /\ UNCHANGED <<idle, state, call, retval, dom, interaction>>

\* `for i in range(0, len(locs), rng_step)` is over
NodeReturn ==
    /\ Running("node")
    /\ Top.j >= Len(Top.locs)
    /\ stack' = Under
    /\ UNCHANGED <<run, call, retval, dom, interaction, trace>>

\* mutant: the data are extracted before the actions run
ElementStepsDataFirst(node, id, loc, st) ==
    LET step(kind) == <<[k |-> kind, id |-> id, elem |-> loc]>>
    IN  (IF "data" \in DOMAIN node THEN step("data") ELSE << >>)
        \o [i \in DOMAIN st.log |-> [k |-> "action", id |-> id, elem |-> loc, ev |-> st.log[i]]]
        \o (IF "links" \in DOMAIN node THEN step("links") ELSE << >>)

\* the steps of one element (core.py 434-442): the scroll into view, what
\* __node_actions did, the links and the data; an error of __node_actions
\* ends them
ElementSteps(node, id, loc, st) ==
    LET step(kind) == <<[k |-> kind, id |-> id, elem |-> loc]>>
    IN  (IF "show" \in DOMAIN node /\ node.show THEN step("scroll") ELSE << >>)
        \o [i \in DOMAIN st.log |-> [k |-> "action", id |-> id, elem |-> loc, ev |-> st.log[i]]]
        \o (IF st.error # None THEN <<[k |-> "raise", e |-> st.error[1].e]>>
            ELSE (IF "links" \in DOMAIN node THEN step("links") ELSE << >>)
                 \o (IF "data" \in DOMAIN node THEN step("data") ELSE << >>))

\* the element in the history
ElementEvent(f, loc) ==
    [k |-> "element", id |-> f.id, node |-> f.node, at |-> f.at, group |-> f.group,
     alt |-> f.alt, elem |-> loc, within |-> f.within,
     actions |-> IF "actions" \in DOMAIN f.node THEN f.node.actions ELSE << >>]

\* the call of __interact for the nested interaction spec (core.py 444-445)
NestedEvent(f) ==
    IF "interact" \in DOMAIN f.node
      THEN <<[k |-> "interact", id |-> NextId, from |-> f.id, cfg |-> f.node.interact]>>
      ELSE << >>
NestedFrame(f, loc) ==
    IF "interact" \in DOMAIN f.node THEN <<InteractFrame(f.node.interact, NextId, loc)>>
    ELSE << >>

\* the links, the data and the nested interaction of an element whose
\* actions are over (core.py 438-445); `r` is what __add_links leaves
Collected(f, loc, r) ==
    /\ heap' = r.heap
    /\ state' = [links |-> r.links,
                 data |-> IF "data" \in DOMAIN f.node
                            THEN ExtractData(f.node.data, All(f.node), 1, state.data, r.heap)
                            ELSE state.data]
    /\ stack' = Under \o <<[f EXCEPT !.j = @ + f.step, !.done = Append(@, loc)]>>
                      \o NestedFrame(f, loc)

\* the element after its actions (core.py 436-445); an error of
\* __node_actions leaves every call of the session
Acted(f, loc, h, st) ==
    /\ trace' = trace \o <<ElementEvent(f, loc)>> \o ElementSteps(f.node, f.id, loc, st)
                      \o (IF st.error # None THEN << >> ELSE NestedEvent(f))
    /\ IF st.error # None
         THEN /\ heap' = h
              /\ stack' = << >>
              /\ UNCHANGED state
         ELSE Collected(f, loc,
                        IF "links" \in DOMAIN f.node
                          THEN AddLinks(f.node.links, h[1]._url, 1, state.links, h)
                          ELSE [links |-> state.links, heap |-> h])

\* the element `loc` with `_nth` set (core.py 431-436); the actions of the
\* interaction specs bind no variable
Nth(f, loc, h) ==
    Acted(f, loc, h,
          NodeActions(IF "actions" \in DOMAIN f.node THEN f.node.actions ELSE << >>,
                      loc, dom, Progress(TagVars(h[1]))))

\* one element of the node: `_nth`, the scroll, its actions, its links, its
\* data and the call of __interact for its nested interaction spec
\* (core.py 431-445)
Element ==
    /\ Running("node")
    /\ Top.j < Len(Top.locs)
    /\ Nth(Top, Top.locs[Top.j + 1], [heap EXCEPT ![1] = DictSet(@, "_nth", Top.j)])
    /\ UNCHANGED <<idle, call, retval, dom, interaction>>

SessionNext ==
    \/ InteractOnce
    \/ InteractCount
    \/ InteractWhile
    \/ InteractReturn
    \/ BrowseReturn
    \/ BrowseSkip
    \/ BrowseTimeout
    \/ BrowseEnter
    \/ NodeReturn
    \/ Element

SessionSpec == SessionInit /\ [][SessionNext]_vars

\* ---- the claims ----------------------------------------------------------
Failed == \E w \in Workers : tasks[w].pc = "failed"
Returned == pc = "returned"

\* C1: when a visit fails inside a worker, the run is aborted: Rake.start
\* eventually returns, and it returns that error.
C1_FailureAbortsRun == Failed ~> (Returned /\ ret.error # NoError)

\* C2: when Rake.start returns an error, the tuple carries the Result Tree
\* accumulated so far.
C2_ErrorCarriesResultTree ==
    (Returned /\ ret.error # NoError) => ret.data = Some(state.data)

\* C3: on every exit path the provider session is released: a launched
\* browser is eventually closed, start returns after that, and no run stays
\* for ever with its browser open.
C3_BrowserReleased ==
    /\ [](Returned => browser # "open")
    /\ (browser = "open") ~> (browser = "closed" /\ Returned)


OpenSessions == {w \in Workers : tasks[w].pc \in SessionPcs}

\* C4: at every instant the number of Page Sessions that are open is at most
\* the budget race.
C4_OpenSessionsWithinBudget == Cardinality(OpenSessions) <= config.race

C4_Witness == config.race = 2 /\ Cardinality(OpenSessions) = 2 /\ Len(links) > 2

VisitedOnce == \A i \in DOMAIN visits : visits[i] = [started |-> 1, done |-> 1]

\* the gather of the round of a page spec has returned
RoundOver == (pc = "resolve" /\ page > 1) \/ pc = "data"

\* C5: no target is visited twice; when the round of a page spec is over
\* every target has been visited exactly once; and unless a visit fails the
\* rounds terminate.
C5_EveryTargetVisitedOnce ==
    /\ [](\A i \in DOMAIN visits : visits[i].done <= visits[i].started /\ visits[i].started <= 1)
    /\ [](RoundOver => VisitedOnce)
    /\ <>(Failed \/ Returned)

C5_Witness ==
    /\ Returned /\ ret.error = NoError /\ config.race = 2
    /\ Len(visits) > 2 /\ VisitedOnce /\ total_opened_pages > 4

\* C6: the drain-wait returns only when every enqueued target has been marked
\* complete, and no termination signal is in the queue while a visit is
\* queued or in flight.
C6_DrainWaitsForEveryVisit ==
    /\ pc \in {"signal", "gather"} =>
          /\ \A i \in DOMAIN visits : visits[i].done >= 1
          /\ OpenSessions = {}
    /\ (\E k \in DOMAIN queue : queue[k] = None) =>
          /\ OpenSessions = {}
          /\ \A k \in DOMAIN queue : queue[k] = None

C6_Witness ==
    /\ pc = "signal" /\ config.race = 2 /\ Len(queue) = 1
    /\ Len(visits) > 2 /\ total_opened_pages > 4

\* the links collected by the page specs before the current one
Earlier == {i \in DOMAIN collected : collected[i].page < page}

\* C7: when the link specification of a page spec is resolved every visit of
\* the page spec before it is complete and all its workers have exited, and a
\* `$name` reference yields every link collected by the earlier page specs.
C7_PageSpecsSequential ==
    /\ pc = "resolve" =>
          /\ \A w \in Workers : tasks[w].pc = "exited"
          /\ \A i \in DOMAIN visits : visits[i].done >= 1
          /\ queue = << >>
    /\ (page > 1 /\ pc \in {"put", "join", "signal", "gather"}
             /\ config.rake[page].link = Str(RefLeads)) =>
          /\ Len(links) = Cardinality(Earlier)
          /\ \A i \in DOMAIN links : i \in Earlier /\ links[i].url = collected[i].url

C7_Witness ==
    /\ page = 2 /\ pc = "put" /\ config.rake[page].link = Str(RefLeads)
    /\ Len(links) > 1 /\ config.race = 2

\* C8: a write to the variables of one session never changes the variables
\* that another session sees.
C8_VariableScopeExclusive ==
    [][\A v \in Workers :
          (tasks[v].pc \in SessionPcs /\ v \in DOMAIN tasks' /\ tasks'[v] = tasks[v])
              => heap'[tasks[v].vars] = heap[tasks[v].vars]]_vars

\* the entries of a group of the registry, with their metadata
Entries(registry, h, name) ==
    [i \in DOMAIN registry[name] |->
        [url |-> registry[name][i].url, metadata |-> h[registry[name][i].metadata]]]

\* C9: the Link Registry is append-only: a step keeps every group, and keeps
\* its entries, their order, their urls and their metadata.
C9_RegistryAppendOnly ==
    [][\A name \in DOMAIN state.links :
          /\ name \in DOMAIN state.links'
          /\ Len(state.links[name]) <= Len(state.links'[name])
          /\ SubSeq(Entries(state.links', heap', name), 1, Len(state.links[name]))
                = Entries(state.links, heap, name)]_vars

\* the link specification as a list, and what each of its items must yield
Items(url) == IF url.t = "list" THEN url.items ELSE <<url>>
IsRef(u) == u.t = "str" /\ u.s[1] = "$"
Group(u, registry) ==
    IF Tail(u.s) \in DOMAIN registry THEN registry[Tail(u.s)] ELSE << >>
Yield(u, registry) == IF IsRef(u) THEN Len(Group(u, registry)) ELSE 1
RECURSIVE Offset(_, _, _)
Offset(items, k, registry) ==
    IF k = 1 THEN 0 ELSE Offset(items, k - 1, registry) + Yield(items[k - 1], registry)

ResolvedInOrder(url, registry, result, h) ==
    LET items == Items(url) IN
    /\ Len(result) = Offset(items, Len(items) + 1, registry)
    /\ \A k \in DOMAIN items :
          LET u == items[k]
              o == Offset(items, k, registry)
          IN  IF IsRef(u)
                THEN SubSeq(result, o + 1, o + Yield(u, registry)) = Group(u, registry)
              ELSE IF u.t = "dict"
                THEN result[o + 1] = [url |-> u.d.url, metadata |-> u.d.metadata]
              ELSE /\ result[o + 1].url = u.s
                   /\ h[result[o + 1].metadata] = EmptyDict

\* C10: resolving a link specification raises no error and yields the visit
\* targets in specification order: {url, metadata: {}} for a plain string,
\* the url and the metadata of an object, the entries of the group in their
\* stored order for a `$name` reference, nothing for a missing group.
C10_ResolveInOrder ==
    [][(pc = "resolve" /\ "link" \in DOMAIN config.rake[page]) =>
          /\ pc' \in {"put", "join"}
          /\ ResolvedInOrder(config.rake[page].link, state.links, links', heap')]_vars

C10_Witness ==
    /\ page = 2 /\ pc = "put" /\ next_link = 1
    /\ config.rake[page].link = List(<<Str(RefLeads), Str(UrlZ)>>)
    /\ Len(links) > 2


\* the producer is in the round of a page spec
InRound == pc \in {"put", "join", "signal", "gather"}

\* C11: a `$name` reference is resolved to a snapshot: while the round of the
\* page spec runs, whatever is appended to the registry, the visit targets of
\* the page spec stay the same list, one visit each.
C11_TargetsAreSnapshot ==
    [][(InRound /\ InRound') =>
          (Targets' = Targets /\ DOMAIN visits' = DOMAIN Targets')]_vars

C11_Witness ==
    /\ InRound /\ page = 2
    /\ config.rake[page].link = List(<<Str(RefLeads), Str(UrlZ)>>)
    /\ Leads \in DOMAIN state.links
    /\ Len(state.links[Leads]) > Len(Targets)

\* C12: when outputs are configured the Result Tree is written on completion
\* of the run, whether it succeeded or failed (unless the write itself is
\* what failed).
C12_OutputsWrittenOnCompletion ==
    (Returned /\ config.output /\ ret.error # "OSError") =>
        (sink # << >> /\ sink[Len(sink)] = state.data)

\* C16: __resolve_range(range, count) returns (start, stop, step) where a
\* position that is absent or '_' takes its default 0, count, 1 and any other
\* position is returned as given: ([], 10) gives (0, 10, 1), (['_', 5, '_'], 10)
\* gives (0, 5, 1) and ([2, '_', 2], 10) gives (2, 10, 2).
Given(range, i) == i \in DOMAIN range /\ range[i] # Underscore
C16_RangeDefaults ==
    (call # None /\ call.fn = "resolve_range" /\ retval # None) =>
        LET r == call.range
            got == retval[1]
        IN  /\ got[1] = IF Given(r, 1) THEN r[1] ELSE IntVal(0)
            /\ got[2] = IF Given(r, 2) THEN r[2] ELSE IntVal(call.max)
            /\ got[3] = IF Given(r, 3) THEN r[3] ELSE IntVal(1)
            /\ (r = << >> /\ call.max = 10) =>
                   got = <<IntVal(0), IntVal(10), IntVal(1)>>
            /\ (r = <<Underscore, IntVal(5), Underscore>> /\ call.max = 10) =>
                   got = <<IntVal(0), IntVal(5), IntVal(1)>>
            /\ (r = <<IntVal(2), Underscore, IntVal(2)>> /\ call.max = 10) =>
                   got = <<IntVal(2), IntVal(10), IntVal(2)>>

C16_Witness ==
    /\ call # None /\ call.fn = "resolve_range" /\ retval # None
    /\ call.range = <<IntVal(2), Underscore, IntVal(2)>>
    /\ call.max = 10

\* C17: the transform pipeline applies its transforms in the listed order to
\* the accumulated value: [trim, lowercase] on "  ABC  " gives "abc";
\* subtract(x) gives numeric(value) - numeric(x) ("10" with 3 gives 7), a
\* non-numeric value counts as 0 and an absent x subtracts nothing (subtract()
\* on "x" gives 0); an unknown transform name leaves the value unchanged.
Then(u, v) == IF v.t = "raise" THEN v ELSE ApplyUtil(u.name, u.args, v)
AllDigits(s) == s # << >> /\ \A i \in DOMAIN s : IsDigit(s[i])
NoDigit(s) == \A i \in DOMAIN s : ~IsDigit(s[i])
Numeric(s) == IF AllDigits(s) THEN ParseNat(s) ELSE 0
C17_PipelineInOrder ==
    (call # None /\ call.fn = "apply_utils" /\ retval # None) =>
        LET u == call.utils
            v == call.value
            got == retval[1]
        IN  /\ Len(u) = 2 => got = Then(u[2], Then(u[1], v))
            /\ (u = <<Util("trim", << >>), Util("lowercase", << >>)>> /\ v = Str(SpacedABC))
                   => got = Str(<<"a", "b", "c">>)
            /\ (Len(u) = 1 /\ u[1].name = "subtract" /\ v.t = "str"
                   /\ (AllDigits(v.s) \/ NoDigit(v.s)))
                   => got = FloatVal(Numeric(v.s)
                                     - (IF u[1].args = << >> THEN 0
                                        ELSE Numeric(u[1].args[1])))
            /\ (u = <<Util("subtract", <<(<<"3">>)>>)>> /\ v = Str(<<"1", "0">>))
                   => got = FloatVal(7)
            /\ (u = <<Util("subtract", << >>)>> /\ v = Str(<<"x">>)) => got = FloatVal(0)
            /\ (Len(u) = 1 /\ u[1].name = "upper") => got = v
            /\ (Len(u) = 2 /\ u[1].name = "upper") => got = Then(u[2], v)
            /\ (Len(u) = 2 /\ u[2].name = "upper") => got = Then(u[1], v)

C17_Witness ==
    /\ call # None /\ call.fn = "apply_utils" /\ retval # None
    /\ call.utils = <<Util("trim", << >>), Util("lowercase", << >>)>>
    /\ call.value = Str(SpacedABC)
    /\ retval[1] = Str(<<"a", "b", "c">>)

\* the paths of the values of a tree that are not maps, and the value at a path
RECURSIVE LeafPaths(_)
LeafPaths(d) ==
    UNION {IF d[k].t = "dict" THEN {<<k>> \o q : q \in LeafPaths(d[k].d)} ELSE {<<k>>} :
           k \in DOMAIN d}
RECURSIVE At(_, _)
At(d, path) == IF Len(path) = 1 THEN d[Head(path)] ELSE At(d[Head(path)].d, Tail(path))
IsPrefix(p, q) == Len(p) <= Len(q) /\ SubSeq(q, 1, Len(p)) = p
Written(i) == KeypathResolve(retval[i].config.scope, retval[i].vars)

C19_MergeIdempotentAndUnion ==
    (call # None /\ call.fn = "extract_data") =>
        \A i \in 1..(Len(retval) - 1) :
            LET a == retval[i]
                b == retval[i + 1]
                va == DataValue(a.config.value, <<a.vars>>, 1)
                vb == DataValue(b.config.value, <<b.vars>>, 1)
            IN  (Written(i) = Written(i + 1) /\ ~a.all /\ ~b.all) =>
                    /\ (va = vb /\ va.t = "str") => b.data = a.data
                    /\ (va.t = "dict" /\ vb.t = "dict"
                          /\ (DOMAIN va.d) \cap (DOMAIN vb.d) = {}
                          /\ Written(i) \notin LeafPaths(Tree(i - 1))
                          /\ \A q \in LeafPaths(Tree(i - 1)) : ~IsPrefix(Written(i), q))
                        => At(b.data, Written(i)) =
                             Dict([k \in (DOMAIN va.d) \cup (DOMAIN vb.d) |->
                                     IF k \in DOMAIN va.d THEN va.d[k] ELSE vb.d[k]])

C19_Witness ==
    /\ call # None /\ call.fn = "extract_data" /\ Len(retval) = 2
    /\ Written(1) = <<SegP>> /\ Written(2) = <<SegP>>
    /\ ~retval[1].all /\ ~retval[2].all
    /\ At(retval[2].data, <<SegP>>) =
           Dict([k \in {SegK, SegJ} |-> IF k = SegK THEN Str(<<"x">>) ELSE Str(<<"y">>)])

\* what the history says of the session
Events(kinds) == {i \in DOMAIN trace : trace[i].k \in kinds}
Count(selector) == Cardinality({e \in DOMAIN dom : dom[e].class = selector})
Returned_(id) == \E i \in Events({"return"}) : trace[i].id = id
Runs(id) == Cardinality({i \in Events({"browse"}) : trace[i].id = id})
Checks(id) ==
    SelectSeq(trace, LAMBDA ev : ev.k \in {"check", "browse"} /\ ev.id = id)

\* C13: in an alternative group only the first alternative whose selector
\* matches a nonzero number of elements has its actions, links, data and nested
\* interaction executed: an alternative that executes for an element matches
\* something and no alternative before it does, and no other alternative of the
\* group executes, also when the ranged slice of the chosen one is empty.
C13_FirstMatchingAlternativeOnly ==
    \A i \in Events({"element"}) :
        LET ev == trace[i]
        IN  /\ Count(ev.group[ev.alt].selector) > 0
            /\ \A b \in 1..(ev.alt - 1) : Count(ev.group[b].selector) = 0

C13_Witness ==
    /\ stack = << >>
    /\ dom = Dom(2)
    /\ \E i \in Events({"element"}) :
          trace[i].group = <<NodeNone, NodeItems, NodeAnchor>> /\ trace[i].alt = 2
    /\ \A i \in Events({"element"}) : trace[i].group # <<NodeFar, NodeAnchor>>
    /\ \E i \in Events({"element"}) : trace[i].group = <<NodeAnchor>>

\* C14: with a condition list the conditions are checked before every run of
\* the node list, the first included: every run follows a passing check,
\* nothing follows a failing check, so the node list runs as many times as
\* there are passing checks before the first failing one (zero times when the
\* first check fails).
C14_CheckBeforeEveryRun ==
    \A i \in Events({"interact"}) :
        RepeatKind(trace[i].cfg) = "list" =>
            LET sub == Checks(trace[i].id)
            IN  /\ \A p \in DOMAIN sub :
                      IF p % 2 = 1
                        THEN sub[p].k = "check" /\ (~sub[p].pass => p = Len(sub))
                        ELSE sub[p].k = "browse" /\ sub[p - 1].k = "check" /\ sub[p - 1].pass
                /\ Returned_(trace[i].id) =>
                      /\ sub # << >>
                      /\ sub[Len(sub)].k = "check"
                      /\ Runs(trace[i].id) = (Len(sub) - 1) \div 2

C14_Witness ==
    /\ stack = << >>
    /\ interaction = [repeat |-> List(<<WhileT>>), nodes |-> <<NodeAnchor>>]
    /\ Returned_(1)
    /\ Runs(1) = 1
    /\ Len(Checks(1)) = 3

\* C15: an interaction spec with an integer repeat count n runs its node list
\* exactly n times (zero times for n = 0) and checks no condition; an
\* interaction spec without `repeat` runs its node list exactly once.
C15_CountedRuns ==
    \A i \in Events({"interact"}) :
        LET id == trace[i].id
            kind == RepeatKind(trace[i].cfg)
            n == IF kind = "int" THEN trace[i].cfg.repeat.v ELSE 1
        IN  kind \in {"int", "none"} =>
                /\ \A c \in Events({"check"}) : trace[c].id # id
                /\ Runs(id) <= n
                /\ Returned_(id) => Runs(id) = n

C15_Witness ==
    /\ stack = << >>
    /\ RepeatKind(interaction) = "int"
    /\ interaction.repeat.v = 2
    /\ Returned_(1)
    /\ Runs(1) = 2

\* C20: the nodes of a nested interaction spec are located within the
\* sub-tree of the element being processed: a nested node never acts on an
\* element outside that sub-tree.
RECURSIVE InSubtree(_, _)
InSubtree(e, root) ==
    IF e = root THEN TRUE
    ELSE IF dom[e].parent = 0 THEN FALSE
    ELSE InSubtree(dom[e].parent, root)
C20_NestedWithinElement ==
    \A i \in Events({"element"}) :
        trace[i].within # 0 => InSubtree(trace[i].elem, trace[i].within)

\* the call of __evaluate has returned a value
Evaluated == call.fn = "evaluate" /\ retval # None /\ retval[1].value.t # "raise"

\* the items of the lists among the values of the getters, in getter order
RECURSIVE ListsOf(_)
ListsOf(got) ==
    IF got = << >> THEN << >>
    ELSE (IF Head(got).t = "list" THEN Head(got).items ELSE << >>) \o ListsOf(Tail(got))

\* the template with every getter replaced by the text of its value
RECURSIVE Substituted(_, _)
Substituted(string, got) ==
    IF string = << >> THEN << >>
    ELSE IF Head(string).getter = "none"
      THEN Head(string).s \o Substituted(Tail(string), got)
    ELSE PyStr(Head(got)) \o Substituted(Tail(string), Tail(got))

\* C21: when at least one getter of the template yields a list, an empty one
\* included, __evaluate returns the concatenation of the lists in getter
\* order; when none does, it returns the template with every getter
\* replaced by its value.
C21_ListWhenAnyGetterYieldsList ==
    Evaluated =>
        LET r == retval[1]
        IN  IF \E i \in DOMAIN r.got : r.got[i].t = "list"
              THEN r.value = List(ListsOf(r.got))
              ELSE r.value = Str(Substituted(call.string, r.got))

\* the place among the getters of the template of its i-th part
GetterIndex(string, i) == Len(ParseGetters(SubSeq(string, 1, i)))

\* C24: an attribute getter that carries a variable-binding name stores the
\* value it returns in the Variable Scope under that name, for text, href,
\* src, disabled and count, for one element and for all.
C24_BindingStoresReturnedValue ==
    Evaluated =>
        \A i \in DOMAIN call.string :
            LET g == call.string[i]
                r == retval[1]
            IN  (g.getter = "attr" /\ "var" \in DOMAIN g.parsed) =>
                    /\ g.parsed.var \in DOMAIN r.vars
                    /\ r.vars[g.parsed.var] = r.got[GetterIndex(call.string, i)]

\* C25: a variable getter whose name is in the Variable Scope evaluates to
\* the value of the variable with the transforms of the getter applied, with
\* or without transforms and without an error; when the name is absent it
\* evaluates to the default, without an error; a getter with a selector, a
\* context, a cardinality or a child index raises a configuration error.
C25_VariableGetter ==
    (call.fn = "evaluate" /\ retval # None /\ Len(call.string) = 1
        /\ call.string[1].getter = "var") =>
        LET g == call.string[1]
            value == retval[1].value
        IN  IF ~IsNoneKeys(g.parsed) THEN value = Raise("ValueError")
            ELSE IF g.parsed.prop \in DOMAIN call.vars
              THEN value = Str(PyStr(ApplyUtils(g.parsed.utils, call.vars[g.parsed.prop])))
            ELSE value = Str(FullMatch(g))

\* the call of __node_actions is over
ActionsDone == call.fn = "node_actions" /\ retval # None

\* an action that is not a raw dispatch and is no click and no swipe
Unsupported(action) ==
    /\ ~("dispatch" \in DOMAIN action /\ action.dispatch)
    /\ action.type \notin {"click", "swipe_left", "swipe_right"}

\* what __node_actions did on the page: the waits and the events
Did(kinds) == {i \in DOMAIN retval[1].log : retval[1].log[i].k \in kinds}
Events_ == {"click", "dispatch_event", "swipe"}

\* C22: an action that is no raw dispatch and whose type is not click,
\* swipe_left or swipe_right makes __node_actions raise, for every repeat
\* count, 0 included, before any delay, any event and any later action of
\* the list.
C22_UnsupportedActionRaisesFirst ==
    (ActionsDone /\ Unsupported(call.actions[1])) =>
        /\ retval[1].error = Some(Raise("ValueError"))
        /\ Did(Events_ \cup {"wait_for_timeout"}) = {}

\* the rectangle of the element when __node_actions is called
Captured == BoundingClientRect(call.loc, 0)

\* C23: the drag of swipe_left goes from the middle of the element
\* (x + width/2, y + height/2) to its left edge (x, same y), the drag of
\* swipe_right to its right edge (x + width); the rectangle is the one
\* captured before the repetitions, so every repetition has the same ends.
C23_SwipeEnds ==
    (ActionsDone /\ call.actions[1].type \in Swipes) =>
        \A i \in Did({"swipe"}) :
            LET ev == retval[1].log[i]
                middle == Captured.y + Captured.height \div 2
            IN  /\ ev.from = <<Captured.x + Captured.width \div 2, middle>>
                /\ ev.to = <<IF ev.type = "swipe_left" THEN Captured.x
                             ELSE Captured.x + Captured.width, middle>>

\* the events of one repetition of an action that fires: the delay, the
\* event, the wait
Repetition(action) ==
    (IF "delay" \in DOMAIN action THEN <<[k |-> "wait_for_timeout", ms |-> action.delay]>>
     ELSE << >>)
    \o <<[k |-> "event"]>>
    \o (IF "wait" \in DOMAIN action THEN <<[k |-> "wait_for_timeout", ms |-> action.wait]>>
        ELSE << >>)

\* ev is what the repetition has at place j
Fits(ev, action, j) ==
    LET rep == Repetition(action)
        at == rep[((j - 1) % Len(rep)) + 1]
    IN  IF ev.k \in Events_ THEN at.k = "event"
        ELSE ev.k = "wait_for_timeout" /\ at.k # "event" /\ at.ms = ev.ms

\* the call is over without an error and its first action has a screenshot
ShotTaken ==
    /\ ActionsDone
    /\ retval[1].error = None
    /\ "screenshot" \in DOMAIN call.actions[1]

\* C29: the path of the screenshot of an action is evaluated before the
\* first repetition; each repetition is the delay, then the action, then the
\* wait; the screenshot is taken once, after the last repetition, at the
\* path that was evaluated first, and the path is not evaluated again.
C29_ScreenshotPathFirst ==
    ShotTaken =>
        LET log == retval[1].log
            action == call.actions[1]
            shots == Did({"screenshot"})
            s == CHOOSE i \in shots : TRUE
        IN  /\ log[1].k = "evaluate"
            /\ Did({"evaluate"}) = {1}
            /\ Cardinality(shots) = 1
            /\ log[s].path = log[1].value
            /\ (s - 2) % Len(Repetition(action)) = 0
            /\ \A j \in 2..(s - 1) : Fits(log[j], action, j - 1)
            /\ ("count" \in DOMAIN action /\ action.count.t = "int") =>
                  s - 2 = action.count.v * Len(Repetition(action))
            /\ \A j \in (s + 1)..Len(log) : log[j].k = "click"
            /\ Len(log) - s <= Len(call.actions) - 1

C29_Witness ==
    /\ ShotTaken
    /\ call.actions[1].type = "swipe_right"
    /\ {"delay", "wait"} \subseteq DOMAIN call.actions[1]
    /\ Cardinality(Did({"swipe"})) = 2
    /\ Len(retval[1].log) = 9

\* what the getter of a condition resolves to on the page of the call
Resolved(c) == Attribute(c.value, 0, call.dom, EmptyDict).value

\* the comparison of a condition, as the name of its operator says
Holds(c) ==
    LET op == c.while[1]
        value == Resolved(c)
        operand == c.while[2]
    IN  CASE op \in {"equal", "is"} -> value = operand
          [] op \in {"not_equal", "not"} -> value # operand
          [] op = "greater_than" -> value.v > operand.v
          [] op = "less_than" -> value.v < operand.v
          [] op = "greater_than_or_equal" -> value.v >= operand.v
          [] op = "less_than_or_equal" -> value.v =< operand.v

\* __should_repeat has returned for conditions that each have a getter, an
\* operator of the eight and an operand
Compared ==
    /\ call.fn = "should_repeat"
    /\ retval # None
    /\ \A i \in DOMAIN call.conditions :
          WellFormed(call.conditions[i]) /\ call.conditions[i].while[1] \in Operators

\* the conditions up to the first whose comparison does not hold
UpToFirstFailure ==
    LET cs == call.conditions
        failing == {i \in DOMAIN cs : ~Holds(cs[i])}
    IN  IF failing = {} THEN cs
        ELSE SubSeq(cs, 1, CHOOSE i \in failing : \A j \in failing : i <= j)

\* C26: __should_repeat returns true exactly when the comparison of every
\* condition holds; the conditions are resolved in order up to the first that
\* fails, the later ones are not resolved and bind no variable; `is` is
\* `equal`, `not` is `not_equal`, and each operator compares the resolved
\* value with the operand as its name says.
C26_EveryConditionInOrder ==
    Compared =>
        LET r == retval[1]
            cs == call.conditions
        IN  /\ r.value = Bool(\A i \in DOMAIN cs : Holds(cs[i]))
            /\ r.read = UpToFirstFailure
            /\ \A name \in DOMAIN r.vars :
                  (name \notin DOMAIN call.vars \/ r.vars[name] # call.vars[name]) =>
                      \E i \in DOMAIN UpToFirstFailure :
                          /\ "var" \in DOMAIN cs[i].value
                          /\ cs[i].value.var = name

C26_Witness ==
    /\ Compared
    /\ Len(call.conditions) = 2
    /\ call.conditions[1].while[1] = "less_than_or_equal"
    /\ ~Holds(call.conditions[1])
    /\ "var" \in DOMAIN call.conditions[2].value
    /\ Holds(call.conditions[2])
    /\ retval[1].value = Bool(FALSE)
    /\ DOMAIN retval[1].vars = {}

\* the steps of an element in the history, and their place in the fixed order
StepKinds == {"scroll", "action", "links", "data"}
Rank(kind) ==
    CASE kind = "scroll" -> 1
      [] kind = "action" -> 2
      [] kind = "links" -> 3
      [] kind = "data" -> 4

\* the element whose steps the event at `i` belongs to: the last one before it
Header(i) ==
    CHOOSE h \in Events({"element"}) :
        h < i /\ \A g \in Events({"element"}) : g < i => g <= h

\* the steps in the history that follow the element at `h`, up to the next
\* event that is no step
StepsOf(h) ==
    {i \in Events(StepKinds) :
        h < i /\ \A j \in (h + 1)..i : trace[j].k \in StepKinds}

\* the element at `h` went through all its steps
Through(h) ==
    /\ h < Len(trace)
    /\ trace[Len(trace)].k # "raise" \/ \E j \in (h + 1)..Len(trace) : trace[j].k = "element"

\* C27: for each selected element the steps run in the order scroll into
\* view (if `show`), actions, links, data, nested interaction; all the steps
\* of an element, its whole nested interaction included, are over before a
\* step of the next element starts; and the nodes are processed in list order.
C27_StepsInOrder ==
    /\ \A i \in Events(StepKinds) :
          /\ \E h \in Events({"element"}) : i \in StepsOf(h)
          /\ trace[i].elem = trace[Header(i)].elem /\ trace[i].id = trace[Header(i)].id
    /\ \A h \in Events({"element"}) :
          LET node == trace[h].node
              last == IF StepsOf(h) = {} THEN h
                      ELSE CHOOSE i \in StepsOf(h) : \A j \in StepsOf(h) : j <= i
              has(kind) == \E i \in StepsOf(h) : trace[i].k = kind
          IN  /\ \A i, j \in StepsOf(h) : i < j =>
                    /\ Rank(trace[i].k) <= Rank(trace[j].k)
                    /\ trace[i].k = trace[j].k => trace[i].k = "action"
              /\ has("scroll") <=> ("show" \in DOMAIN node /\ node.show)
              /\ Through(h) =>
                    /\ has("links") <=> "links" \in DOMAIN node
                    /\ has("data") <=> "data" \in DOMAIN node
                    /\ Cardinality({i \in StepsOf(h) : trace[i].k = "action"})
                         >= Len(trace[h].actions)
                    /\ "interact" \in DOMAIN node =>
                          /\ last < Len(trace)
                          /\ trace[last + 1].k = "interact"
                          /\ trace[last + 1].from = trace[h].id
                          /\ trace[last + 1].cfg = node.interact
    /\ \A n \in Events({"interact"}) :
          \A j \in (n + 1)..Len(trace) :
              ("id" \in DOMAIN trace[j] /\ trace[j].id = trace[n].from) =>
                  \E r \in (n + 1)..(j - 1) :
                      trace[r].k = "return" /\ trace[r].id = trace[n].id
    /\ \A g, h \in Events({"element"}) :
          (g < h /\ trace[g].id = trace[h].id
             /\ ~\E b \in (g + 1)..(h - 1) :
                   trace[b].k = "browse" /\ trace[b].id = trace[g].id) =>
              trace[g].at <= trace[h].at

C27_Witness ==
    /\ stack = << >>
    /\ \E g, h \in Events({"element"}) :
          /\ g < h
          /\ trace[g].node = NodeFull([nodes |-> <<NodeAnchor>>])
          /\ trace[h].node = trace[g].node
          /\ trace[g].elem # trace[h].elem
          /\ Cardinality(StepsOf(h)) = 5
    /\ \E h \in Events({"element"}) : trace[h].at = 2 /\ trace[h].id = 1

\* the node frames of the session
NodeFrames == {i \in DOMAIN stack : stack[i].k = "node"}

\* the resolved range of the node of a frame
Resolved_(f) ==
    ResolveRange(IF "range" \in DOMAIN f.node THEN f.node.range ELSE << >>,
                 Len(PageLocatorAll(dom, f.node.selector)))

\* the positions start, start + step, ... below min(stop, count)
Positions(start, stop, step, count) ==
    LET limit == IF stop < count THEN stop ELSE count
        below == {p \in start..(limit - 1) : (p - start) % step = 0}
    IN  [n \in 1..Cardinality(below) |-> start + (n - 1) * step]

\* the elements the loop of a frame is to process, in order
Expected(f) ==
    LET matched == PageLocatorAll(dom, f.node.selector)
        rng == Resolved_(f)
        positions == Positions(rng[1].v, rng[2].v, rng[3].v, Len(matched))
    IN  IF All(f.node) THEN [n \in DOMAIN positions |-> matched[positions[n] + 1]]
        ELSE IF positions # << >> THEN <<matched[rng[1].v + 1]>>
        ELSE << >>

\* C28: for a node whose selector matches and whose resolved range is
\* (start, stop, step) with 0 <= start and step >= 1: with `all` the elements
\* processed are those at the matched positions start, start + step, ...
\* below min(stop, count), in that order; without `all` it is the one element
\* at position start, or none when the ranged slice is empty.
C28_RangedElements ==
    \A i \in NodeFrames :
        LET f == stack[i]
            expected == Expected(f)
        IN  (Resolved_(f)[1].v >= 0 /\ Resolved_(f)[3].v >= 1) =>
                /\ Len(f.done) <= Len(expected)
                /\ f.done = SubSeq(expected, 1, Len(f.done))
                /\ f.j >= Len(f.locs) => f.done = expected

C28_Witness ==
    \E i \in NodeFrames :
        /\ All(stack[i].node)
        /\ Resolved_(stack[i])[1].v = 0
        /\ Resolved_(stack[i])[3].v = 2
        /\ stack[i].j >= Len(stack[i].locs)
        /\ Len(stack[i].done) = 2

\* the timeouts of the waits in the history
Timeouts == {i \in Events({"raise"}) : trace[i].e = "TimeoutError"}

\* C30: when a node has a wait and nothing matches before it elapses, the
\* error is fatal: the wait is attempted once, and no later alternative, no
\* later node and no action, link or data step of the session runs after it.
C30_TimeoutIsFatal ==
    \A i \in Timeouts :
        /\ i = Len(trace)
        /\ stack = << >>
        /\ i > 1 /\ trace[i - 1].k = "wait_for"
        /\ \A j \in Events({"wait_for"}) :
              (j < i - 1 /\ trace[j].selector = trace[i - 1].selector) =>
                  \E e \in (j + 1)..(i - 2) : trace[e].k \in {"element", "browse"}

C30_Witness ==
    /\ Timeouts # {}
    /\ interaction = [nodes |-> <<List(<<NodeWait, NodeAnchor>>), NodeFirstItem>>]
    /\ Count(Anchor) > 0
    /\ Events({"element"}) = {}
    /\ state.data = EmptyDict

\* a step that puts a visit target into the queue
PutsTarget == Len(queue') > Len(queue) /\ queue'[Len(queue')] # None

\* C31: for every budget race >= 1 the visit queue never holds more than race
\* items, visit targets and termination signals together, and a visit target
\* is enqueued only while the queue holds fewer than race items.
C31_QueueBackpressure ==
    /\ [](config.race >= 1 => Len(queue) <= config.race)
    /\ [][(config.race >= 1 /\ PutsTarget) => Len(queue) < config.race]_vars

\* the queue is full and the producer waits with a target to put
C31_Witness ==
    /\ pc = "put" /\ config.race = 2 /\ Len(queue) = 2
    /\ Len(links) > 2 /\ ENABLED (\E w \in Workers : Get(w))

\* the workers that have left their loop, and the signals in a queue
Exited == {w \in Workers : tasks[w].pc = "exited"}
Signals(q) == Cardinality({k \in DOMAIN q : q[k] = None})

\* the termination signals that have been put
SignalsPut == IF pc = "signal" THEN next_link - 1 ELSE Len(tasks)

\* the step takes the head of the queue: a worker that has not exited does
\* it, and when the head is a signal that worker, and no other, exits
TakenByOne ==
    \E w \in Workers :
        /\ tasks[w].pc = "get"
        /\ Head(queue) = None =>
              /\ tasks'[w].pc = "exited"
              /\ \A v \in Workers \ {w} : tasks'[v] = tasks[v]

\* C32: after the drain one termination signal per worker is enqueued; every
\* worker consumes exactly one signal and then exits, a worker that has
\* exited takes nothing more, and when all workers of a page spec have exited
\* the queue is empty.
C32_OneSignalPerWorker ==
    /\ [](pc \in {"signal", "gather"} =>
             Cardinality(Exited) + Signals(queue) = SignalsPut)
    /\ [][Len(queue') < Len(queue) => TakenByOne]_vars
    /\ [][\A w \in Workers :
             (tasks[w].pc = "exited" /\ pc # "resolve") => tasks'[w] = tasks[w]]_vars
    /\ []((Workers # {} /\ Exited = Workers) => queue = << >>)
    /\ (pc = "signal") ~> (pc = "gather" /\ Exited = Workers /\ queue = << >>)

\* two workers have each taken their signal after a round with visits
C32_Witness ==
    /\ pc = "gather" /\ config.race = 2 /\ Cardinality(Exited) = 2
    /\ queue = << >> /\ Len(links) > 1 /\ total_opened_pages > 1

\* the visits of the round that were marked complete, and those opened
RECURSIVE Completed(_)
Completed(v) == IF v = << >> THEN 0 ELSE v[1].done + Completed(Tail(v))
InFlight == {i \in DOMAIN visits : visits[i].started > visits[i].done}

\* `visits` is the round of the page spec before `page` until the links of
\* `page` are resolved, which a page spec with no link never does
RoundOfPage ==
    ~(pc = "resolve" \/ (ret # None /\ ret.error = "KeyError"))

\* the visit targets of the first page spec, which has no `$name` reference
TargetsBefore ==
    IF page > 1 /\ RoundOfPage THEN Len(Items(config.rake[1].link)) ELSE 0

\* C33: the visited-page counter of core.py counts the completed visits: it
\* is the number of visit targets whose open has returned and that were marked
\* complete, a visit in flight or failed is not in it, and after a run without
\* failure it is the number of visit targets of all the page specs.
C33_CounterCountsCompletedVisits ==
    /\ total_opened_pages = TargetsBefore + Completed(visits)
    /\ total_opened_pages <= TargetsBefore + Len(visits) - Cardinality(InFlight)
    /\ (Returned /\ ret.error = NoError /\ "rake" \in DOMAIN config) =>
           total_opened_pages = TargetsBefore + Len(visits)

\* a visit of the second page spec is done, one is in flight and one failed
C33_Witness ==
    /\ page = 2 /\ pc = "join" /\ Completed(visits) = 1 /\ Failed
    /\ \E w \in Workers : tasks[w].pc \in SessionPcs
    /\ total_opened_pages > 2

\* the step processes an element: its actions, links and data run in it
ElementStep == Len(trace') > Len(trace) /\ trace'[Len(trace) + 1].k = "element"
NameOf(node) == IF "name" \in DOMAIN node THEN node.name ELSE node.selector

\* the variables the element was processed with name its node and its index
NodeAndNth ==
    /\ heap'[1]._node = Slug(NameOf(Top.node))
    /\ heap'[1]._nth = Top.j
    /\ Top.locs[Top.j + 1] = trace'[Len(trace) + 1].elem

\* C34: whenever the actions, the link collection or the data extraction run
\* for an element of a node N, `_node` holds the name of N with ':' replaced
\* by '-' and `_nth` the index of the element in the ranged slice of N: for
\* every selected element of N, the second and later ones of a node with
\* `all` and a nested interaction too.
C34_NodeAndNthOfElement == [][ElementStep => NodeAndNth]_vars

\* no condition of the list can fail: each is malformed or names an operator
\* that no case of the match knows; the empty list is one of these
CannotFail(conditions) ==
    \A i \in DOMAIN conditions :
        ~WellFormed(conditions[i]) \/ conditions[i].while[1] \notin Operators

\* the calls of __interact with a condition list, the checks of a call and
\* its return
Conditional == {i \in DOMAIN trace : trace[i].k = "interact" /\ RepeatKind(trace[i].cfg) = "list"}
ChecksOf(id) == {j \in DOMAIN trace : trace[j].k = "check" /\ trace[j].id = id}
ReturnsOf(id) == {j \in DOMAIN trace : trace[j].k = "return" /\ trace[j].id = id}

\* C35: a conditional-repeat interaction ends only when a well-formed
\* condition fails: its return follows a check that did not pass, of a list
\* with a condition that can fail; for the empty list, or a list in which
\* every condition is malformed or names an unknown operator, every check
\* passes and is followed by a run of the node list, and the interaction does
\* not return.
C35_EndsOnlyOnFailedCondition ==
    \A i \in Conditional :
        LET id == trace[i].id
            conditions == trace[i].cfg.repeat.items
        IN  /\ \A j \in ReturnsOf(id) :
                  /\ j - 1 \in ChecksOf(id)
                  /\ ~trace[j - 1].pass
                  /\ ~CannotFail(conditions)
            /\ CannotFail(conditions) =>
                  /\ ReturnsOf(id) = {}
                  /\ \A j \in ChecksOf(id) :
                        /\ trace[j].pass
                        /\ trace[j + 1] = [k |-> "browse", id |-> id]

\* the condition list is empty and the node list has run as often as the
\* model lets it, after as many checks
C35_Witness ==
    /\ Running("interact") /\ RepeatKind(Top.cfg) = "list"
    /\ Top.cfg.repeat.items = << >> /\ Top.runs = MaxRuns
    /\ Cardinality(ChecksOf(Top.id)) = MaxRuns
    /\ PageLocatorAll(dom, Anchor) # << >>

\* the step in which the session of worker `w` runs __extract_data: from its
\* last suspension before it to `await self.__page.close()`
ExtractionBy(w) == tasks[w].pc \in {"locate", "evaluate"} /\ tasks'[w].pc = "close"

\* the path is resolved and the value assigned on the tree as the step found
\* it, and the value is at the path afterwards
AssignedWhereResolved(w) ==
    LET u == heap'[tasks[w].vars]._url
    IN  /\ state'.data = KeypathAssign(Str(u), state.data, <<u>>, TRUE)
        /\ u \in DOMAIN state'.data
        /\ state'.data[u] = Str(u)

\* every value of the tree is still there after the step
EveryValueKept ==
    \A k \in DOMAIN state.data : k \in DOMAIN state'.data /\ state'.data[k] = state.data[k]

====
